---- MODULE Spec2Model ----
(***************************************************************************)
(* Model of the ad-insertion core of the packager.                         *)
(*                                                                         *)
(* Part 1: CueAlignmentHandler (media/chunking/cue_alignment_handler.cc)   *)
(* together with the SyncPointQueue it drives.  Every handler call         *)
(* (OnSample, OnSignal, OnFlushRequest) is one atomic action; what the     *)
(* handler sends downstream is recorded per stream in `dispatched`.        *)
(*                                                                         *)
(* Times.  A value "in seconds" (a double in the code) is represented by   *)
(* the integer number of 1/TicksPerSecond seconds it equals, so that       *)
(* fractional seconds exist in the model.  Sample timestamps are in ticks  *)
(* of the stream's time_scale; SCTE-35 timestamps are in ticks of          *)
(* kPtsTimescale.  Both scales are TicksPerSecond in the model.            *)
(***************************************************************************)
EXTENDS Integers, Sequences, FiniteSets, TLC

\* ---------------------------------------------------------------- bounds
\* Ticks per second of every time scale of the model.
TicksPerSecond == 2
\* Largest timestamp (in ticks) of a sample or a signal given to the handler.
MaxTime == 2
\* Number of handler calls in one run of the general specification.
MaxCalls == 4
\* Largest number of descriptors in the descriptor loop of a section given to
\* the parser.
MaxDescriptors == 2
\* By how much a declared length or the size of a section given to the parser
\* departs from a well-formed section's.
MaxDeparture == 1
\* Largest number of segmentation descriptors in a section given to the parser
\* when the slots of the section are filled.
MaxSlotDescriptors == 9
\* Number of segments the notifier is given in all
MaxNotifierSegments == 3
\* Number of MediaPlaylist calls, after SetMediaInfo, in one run.
MaxPlaylistCalls == 5
\* The time scale of the MediaInfo given to the playlist, in ticks per second.
PlaylistTimeScale == 2
\* Number of MediaPlaylist calls of the slide scenario, SetMediaInfo among them.
MaxSlideCalls == 7

\* ------------------------------------------------------ program constants
\* The max number of samples that may be buffered on one stream.
kMaxBufferSize == 1000

\* The "infinity" GetHint answers when no event follows.
Infinity == 1000000

\* segmentation_type_id values given to the handler: a START, an END and a
\* type that is neither (0x34, 0x35, 0x10).
SegTypes == {52, 53, 16}

\* The input configurations: the stream types of the handler's inputs, in
\* stream_index order (one with a video input, one without).
Configs == { <<"video", "audio">>, <<"audio", "text">> }

\* Duration, in ticks, of the samples of a stream of the given type.
DurationOf(stream_type) == IF stream_type = "video" THEN 1 ELSE 2

VARIABLES
  info,           \* stream_index -> StreamInfo [stream_type, time_scale]
  stream_states,  \* stream_index -> StreamState
  hint_,          \* the handler's hint, in seconds
  sync_points,    \* the SyncPointQueue: [events, cancelled]
  dispatched,     \* stream_index -> what was sent downstream, in order
  flushed,        \* FlushAllDownstreams was called
  obtained,       \* the cue events got from the queue, in order
  accepted,       \* stream_index -> the samples given to OnSample, in order
  added,          \* number of events added to the queue so far
  call,           \* the last handler call: [n, op, stream_index, arg, status]
  wait_for_pusi_, \* TsSectionData::wait_for_pusi_
  sis_,           \* EsParserScte35::sis_: << >> when null, else << section >>
  ts_call,        \* the last TsSectionData call
  seen_pusi,      \* a payload with the unit start indicator was given
  playlist,       \* the MediaPlaylist, NoPlaylist before it is constructed
  pl_call,        \* the last MediaPlaylist call and what it did
  pl_hist,        \* what the MediaPlaylist calls did in all
  notifier        \* the SimpleHlsNotifier and its last call

vars == << info, stream_states, hint_, sync_points, dispatched, flushed,
           obtained, accepted, added, call,
           wait_for_pusi_, sis_, ts_call, seen_pusi,
           playlist, pl_call, pl_hist, notifier >>

\* The variables of the media playlist.
playlist_vars == << playlist, pl_call, pl_hist >>

\* The variable of the HLS notifier.
notifier_vars == << notifier >>

\* The variables of the section parser and its framer.
parser_vars == << wait_for_pusi_, sis_, ts_call, seen_pusi >>

\* The variables of the cue alignment handler and its queue.
handler_vars == << info, stream_states, hint_, sync_points, dispatched,
                   flushed, obtained, accepted, added, call >>

Streams == DOMAIN info

\* ------------------------------------------------------------ scte35 types
SCTE35_START_EVENT(type) == type \in {48, 50, 52, 54}

SCTE35_END_EVENT(type) == type \in {49, 51, 53, 55}

\* ------------------------------------------------------------ sample times
\* A sample is [id, pts, duration, is_key_frame, text]; for a text sample pts
\* is start_time() and pts + duration is EndTime().
GetScaledTime(inf, data) ==
  IF data.text THEN data.pts
  ELSE IF inf.stream_type = "audio" THEN data.pts + (data.duration \div 2)
  ELSE data.pts

\* static_cast<double>((scaled_time) / time_scale): the division is done on
\* integers, the result is a whole number of seconds.
TimeInSeconds(inf, data) ==
  (GetScaledTime(inf, data) \div inf.time_scale) * TicksPerSecond

\* static_cast<double>(scaled_time) / time_scale: an exact division.
TextEndTimeInSeconds(inf, data) ==
  ((data.pts + data.duration) * TicksPerSecond) \div inf.time_scale

\* -------------------------------------------------------- SyncPointQueue
\* A cue event is [id, time_in_seconds, seg_type].  The queue keeps its
\* pending events ordered by time, events of the same time in insertion order.
NoEvent == [id |-> 0, time_in_seconds |-> 0, seg_type |-> 0]

RECURSIVE InsertByTime(_, _)
InsertByTime(events, event) ==
  IF events = << >> THEN << event >>
  ELSE IF Head(events).time_in_seconds <= event.time_in_seconds
       THEN << Head(events) >> \o InsertByTime(Tail(events), event)
       ELSE << event >> \o events

SyncPointAdd(q, event) == [q EXCEPT !.events = InsertByTime(@, event)]

RemoveAt(seq, i) == SubSeq(seq, 1, i - 1) \o SubSeq(seq, i + 1, Len(seq))

\* The time of the next event strictly greater than `after`, or Infinity.
GetHint(q, after) ==
  LET later == { i \in 1..Len(q.events) : q.events[i].time_in_seconds > after }
  IN IF later = {} THEN Infinity
     ELSE q.events[CHOOSE i \in later : \A j \in later : i <= j].time_in_seconds

\* The earliest event at or before `hint`, removed from the queue; "cancelled"
\* once the queue is cancelled; the caller stays blocked while there is none.
GetNext(q, hint) ==
  LET ready == { i \in 1..Len(q.events) : q.events[i].time_in_seconds <= hint }
  IN IF q.cancelled THEN [result |-> "cancelled", event |-> NoEvent, q |-> q]
     ELSE IF ready = {} THEN [result |-> "blocked", event |-> NoEvent, q |-> q]
     ELSE LET i == CHOOSE i \in ready : \A j \in ready : i <= j
          IN [result |-> "ok", event |-> q.events[i],
              q |-> [q EXCEPT !.events = RemoveAt(@, i)]]

\* The pending event at time t, made the sync point of t and removed from the
\* queue; NoEvent when none is pending at t.
PromoteAt(q, t) ==
  LET at == { i \in 1..Len(q.events) : q.events[i].time_in_seconds = t }
  IN IF q.cancelled \/ at = {} THEN [event |-> NoEvent, q |-> q]
     ELSE LET i == CHOOSE i \in at : \A j \in at : i <= j
          IN [event |-> q.events[i], q |-> [q EXCEPT !.events = RemoveAt(@, i)]]

HasMore(q, hint) ==
  \E i \in 1..Len(q.events) : q.events[i].time_in_seconds >= hint

\* ---------------------------------------------------- CueAlignmentHandler
\* The handler's own state, as one record the operations below transform.
Handler ==
  [stream_states |-> stream_states, hint_ |-> hint_, sync_points |-> sync_points,
   dispatched |-> dispatched, flushed |-> flushed, obtained |-> obtained]

Ok(h) == [status |-> "OK", h |-> h]

Fail(status, h) == [status |-> status, h |-> h]

SampleItem(sample) == [kind |-> "sample", sample |-> sample]

CueItem(event) == [kind |-> "cue", event |-> event]

Dispatch(h, s, item) == [h EXCEPT !.dispatched[s] = Append(@, item)]

\* Dispatch(std::move(stream->samples.front())); stream->samples.pop_front();
DispatchFrontSample(h, s) ==
  LET sent == Dispatch(h, s, SampleItem(Head(h.stream_states[s].samples)))
  IN [sent EXCEPT !.stream_states[s].samples = Tail(@)]

\* Dispatch(std::move(stream->cues.front())); stream->cues.pop_front();
DispatchFrontCue(h, s) ==
  LET sent == Dispatch(h, s, CueItem(Head(h.stream_states[s].cues)))
  IN [sent EXCEPT !.stream_states[s].cues = Tail(@)]

\* The second loop of RunThroughSamples: send the samples before the hint.
RECURSIVE DrainToHint(_, _)
DrainToHint(h, s) ==
  LET st == h.stream_states[s]
  IN IF st.samples # << >> /\ TimeInSeconds(info[s], Head(st.samples)) < h.hint_
     THEN DrainToHint(DispatchFrontSample(h, s), s)
     ELSE h

RECURSIVE RunThroughSamples_CueFirst(_, _)
\* RunThroughSamples with the comparison of the merge lost: the cue goes first.
RunThroughSamples_CueFirst(h, s) ==
  LET st == h.stream_states[s]
  IN IF st.cues # << >> /\ st.samples # << >>
     THEN RunThroughSamples_CueFirst(DispatchFrontCue(h, s), s)
     ELSE DrainToHint(h, s)

RECURSIVE RunThroughSamples(_, _)
RunThroughSamples(h, s) ==
  LET st == h.stream_states[s]
  IN IF st.cues # << >> /\ st.samples # << >>
     THEN LET cue_time == Head(st.cues).time_in_seconds
              sample_time == TimeInSeconds(info[s], Head(st.samples))
          IN IF sample_time < cue_time
             THEN RunThroughSamples(DispatchFrontSample(h, s), s)
             ELSE RunThroughSamples(DispatchFrontCue(h, s), s)
     ELSE DrainToHint(h, s)

\* The loop of UseNewSyncPoint over the streams from stream_index s on.
RECURSIVE PushToStreams(_, _, _)
PushToStreams(h, new_sync, s) ==
  IF s \notin DOMAIN h.stream_states THEN h
  ELSE PushToStreams(
         RunThroughSamples(
           [h EXCEPT !.stream_states[s].cues = Append(@, new_sync)], s),
         new_sync, s + 1)

UseNewSyncPoint(h, new_sync) ==
  PushToStreams(
    [h EXCEPT !.hint_ = GetHint(h.sync_points, new_sync.time_in_seconds),
              !.obtained = Append(@, new_sync)],
    new_sync, 1)

\* EveryoneWaitingAtHint satisfied by one waiting stream.
EveryoneWaitingAtHint_Anyone(h) ==
  \E s \in DOMAIN h.stream_states : h.stream_states[s].samples # << >>

EveryoneWaitingAtHint(h) ==
  \A s \in DOMAIN h.stream_states : h.stream_states[s].samples # << >>

\* AcceptSample with push_front for push_back.
AcceptSample_PushFront(h, s, sample) ==
  LET pushed == [h EXCEPT !.stream_states[s].samples = << sample >> \o @]
  IN IF Len(pushed.stream_states[s].samples) > kMaxBufferSize
     THEN Fail("INVALID_ARGUMENT", pushed)
     ELSE Ok(RunThroughSamples(pushed, s))

\* AcceptSample with the cap off by one.
AcceptSample_OffByOne(h, s, sample) ==
  LET pushed == [h EXCEPT !.stream_states[s].samples = Append(@, sample)]
  IN IF Len(pushed.stream_states[s].samples) > kMaxBufferSize + 1
     THEN Fail("INVALID_ARGUMENT", pushed)
     ELSE Ok(RunThroughSamples(pushed, s))

AcceptSample(h, s, sample) ==
  LET pushed == [h EXCEPT !.stream_states[s].samples = Append(@, sample)]
  IN IF Len(pushed.stream_states[s].samples) > kMaxBufferSize
     THEN Fail("INVALID_ARGUMENT", pushed)
     ELSE Ok(RunThroughSamples(pushed, s))

\* GetNextCue followed by UseNewSyncPoint.
UseNextCue(h) ==
  LET got == GetNext(h.sync_points, h.hint_)
  IN IF got.result = "ok"
     THEN Ok(UseNewSyncPoint([h EXCEPT !.sync_points = got.q], got.event))
     ELSE IF got.result = "cancelled" THEN Fail("CANCELLED", h)
     ELSE Fail("BLOCKED", h)

SetState(h, s, seg_type) ==
  [h EXCEPT !.stream_states[s].state =
     IF SCTE35_START_EVENT(seg_type) THEN "InAd" ELSE "InProgram"]

\* OnVideoSample promoting at every frame, key frame or not.
OnVideoSample_AnyFrame(h, s, sample) ==
  LET sample_time == TimeInSeconds(info[s], sample)
  IN IF sample_time >= h.hint_
     THEN LET next_sync == PromoteAt(h.sync_points, sample_time)
          IN IF next_sync.event = NoEvent
             THEN Fail("INVALID_ARGUMENT", h)
             ELSE LET used == UseNewSyncPoint(
                                [h EXCEPT !.sync_points = next_sync.q],
                                next_sync.event)
                      seg_type == Head(used.stream_states[s].cues).seg_type
                      sent == SetState(DispatchFrontCue(used, s), s, seg_type)
                  IN Ok(Dispatch(sent, s, SampleItem(sample)))
     ELSE Ok(Dispatch(h, s, SampleItem(sample)))

\* OnVideoSample going on when the promotion fails.
OnVideoSample_IgnoreFailure(h, s, sample) ==
  LET sample_time == TimeInSeconds(info[s], sample)
  IN IF sample.is_key_frame /\ sample_time >= h.hint_
     THEN LET next_sync == PromoteAt(h.sync_points, sample_time)
          IN IF next_sync.event = NoEvent
             THEN Ok(Dispatch(h, s, SampleItem(sample)))
             ELSE LET used == UseNewSyncPoint(
                                [h EXCEPT !.sync_points = next_sync.q],
                                next_sync.event)
                      seg_type == Head(used.stream_states[s].cues).seg_type
                      sent == SetState(DispatchFrontCue(used, s), s, seg_type)
                  IN Ok(Dispatch(sent, s, SampleItem(sample)))
     ELSE Ok(Dispatch(h, s, SampleItem(sample)))

OnVideoSample(h, s, sample) ==
  LET sample_time == TimeInSeconds(info[s], sample)
  IN IF sample.is_key_frame /\ sample_time >= h.hint_
     THEN LET next_sync == PromoteAt(h.sync_points, sample_time)
          IN IF next_sync.event = NoEvent
             THEN Fail("INVALID_ARGUMENT", h)
             ELSE LET used == UseNewSyncPoint(
                                [h EXCEPT !.sync_points = next_sync.q],
                                next_sync.event)
                      seg_type == Head(used.stream_states[s].cues).seg_type
                      sent == SetState(DispatchFrontCue(used, s), s, seg_type)
                  IN Ok(Dispatch(sent, s, SampleItem(sample)))
     ELSE Ok(Dispatch(h, s, SampleItem(sample)))

\* OnNonVideoSample reporting success when GetNextCue fails.
OnNonVideoSample_SwallowFailure(h, s, sample) ==
  LET acc == AcceptSample(h, s, sample)
  IN IF acc.status # "OK" THEN acc
     ELSE IF EveryoneWaitingAtHint(acc.h)
          THEN Ok(UseNextCue(acc.h).h)
          ELSE acc

OnNonVideoSample(h, s, sample) ==
  LET acc == AcceptSample(h, s, sample)
  IN IF acc.status # "OK" THEN acc
     ELSE IF EveryoneWaitingAtHint(acc.h) THEN UseNextCue(acc.h)
     ELSE acc

OnSample(h, s, sample) ==
  LET h1 == IF sample.text
            THEN [h EXCEPT !.stream_states[s].max_text_sample_end_time_seconds =
                    IF TextEndTimeInSeconds(info[s], sample) > @
                    THEN TextEndTimeInSeconds(info[s], sample) ELSE @]
            ELSE h
  IN IF info[s].stream_type = "video" THEN OnVideoSample(h1, s, sample)
     ELSE OnNonVideoSample(h1, s, sample)

\* OnSignal without the check of the stream's state.
OnSignal_NoStateCheck(h, signal, id) ==
  LET event == [id |-> id, time_in_seconds |-> signal.start_time_pts,
                seg_type |-> signal.seg_type]
      q == SyncPointAdd(h.sync_points, event)
  IN Ok([h EXCEPT !.sync_points = q, !.hint_ = GetHint(q, -1)])

\* A signal is [stream_index, start_time_pts, seg_type]; `id` numbers the event
\* the call creates.
OnSignal(h, signal, id) ==
  LET stream == h.stream_states[signal.stream_index]
  IN IF \/ SCTE35_START_EVENT(signal.seg_type) /\ stream.state = "InProgram"
        \/ SCTE35_END_EVENT(signal.seg_type) /\ stream.state = "InAd"
     THEN LET event == [id |-> id, time_in_seconds |-> signal.start_time_pts,
                        seg_type |-> signal.seg_type]
              q == SyncPointAdd(h.sync_points, event)
          IN Ok([h EXCEPT !.sync_points = q, !.hint_ = GetHint(q, -1)])
     ELSE Ok(h)

\* The final flush leaving the pending cues in the queue.
DrainSyncPoints_LeaveCues(h) == Ok(h)

\* while (sync_points_->HasMore(hint_)) { GetNextCue; UseNewSyncPoint; }
RECURSIVE DrainSyncPoints(_)
DrainSyncPoints(h) ==
  IF HasMore(h.sync_points, h.hint_)
  THEN LET used == UseNextCue(h)
       IN IF used.status = "OK" THEN DrainSyncPoints(used.h) ELSE used
  ELSE Ok(h)

\* The final flush dropping every cue that is left.
DispatchLeftCues_DropAll(h, s, cues) == h

\* The final flush dispatching a left cue whose time is the end time itself.
RECURSIVE DispatchLeftCues_AtOrBefore(_, _, _)
DispatchLeftCues_AtOrBefore(h, s, cues) ==
  IF cues = << >> THEN h
  ELSE DispatchLeftCues_AtOrBefore(
         IF Head(cues).time_in_seconds <=
              h.stream_states[s].max_text_sample_end_time_seconds
         THEN Dispatch(h, s, CueItem(Head(cues))) ELSE h,
         s, Tail(cues))

\* The inner loop of the final flush: the cues left on stream s.
RECURSIVE DispatchLeftCues(_, _, _)
DispatchLeftCues(h, s, cues) ==
  IF cues = << >> THEN h
  ELSE DispatchLeftCues(
         IF Head(cues).time_in_seconds <
              h.stream_states[s].max_text_sample_end_time_seconds
         THEN Dispatch(h, s, CueItem(Head(cues))) ELSE h,
         s, Tail(cues))

\* The loop of the final flush over the streams from stream_index s on.
RECURSIVE FlushStreams(_, _)
FlushStreams(h, s) ==
  IF s \notin DOMAIN h.stream_states THEN h
  ELSE LET ran == RunThroughSamples(h, s)
           sent == DispatchLeftCues(ran, s, ran.stream_states[s].cues)
       IN FlushStreams([sent EXCEPT !.stream_states[s].cues = << >>], s + 1)

\* OnFlushRequest that does not wait for the other streams.
OnFlushRequest_NoWait(h, s) ==
  LET marked == [h EXCEPT !.stream_states[s].to_be_flushed = TRUE]
      drained == DrainSyncPoints(marked)
  IN IF drained.status # "OK" THEN drained
     ELSE Ok([FlushStreams(drained.h, 1) EXCEPT !.flushed = TRUE])

OnFlushRequest(h, s) ==
  LET marked == [h EXCEPT !.stream_states[s].to_be_flushed = TRUE]
  IN IF \E t \in DOMAIN marked.stream_states :
          ~marked.stream_states[t].to_be_flushed
     THEN Ok(marked)
     ELSE LET drained == DrainSyncPoints(marked)
          IN IF drained.status # "OK" THEN drained
             ELSE Ok([FlushStreams(drained.h, 1) EXCEPT !.flushed = TRUE])

\* ------------------------------------------------------------------ state
InitStreamState ==
  [samples |-> << >>, cues |-> << >>, max_text_sample_end_time_seconds |-> 0,
   state |-> "InProgram", to_be_flushed |-> FALSE]

\* The report of a TsSectionData call that did not call EsParserScte35::Parse.
NoParse ==
  [parsed |-> FALSE, buf |-> << >>, ok |-> FALSE, callbacks |-> << >>,
   pos |-> 0, header_end |-> -1, command_end |-> -1, loop_begin |-> -1,
   loop_end |-> -1, crc_begin |-> -1, descriptors |-> << >>]

\* No MediaPlaylist is constructed yet.
NoPlaylist == [constructed |-> FALSE]

\* No SimpleHlsNotifier is constructed yet.
NoNotifier == [constructed |-> FALSE]

\* What a MediaPlaylist call did: the entries it appended to entries_, in
\* order; one record for every SlideWindow that went through entries_; the
\* start times RemoveOldSegment was called with; the files it deleted; whether
\* a DCHECK ended the process; what WriteToFile wrote.
NoPlaylistCall ==
  [n |-> 0, op |-> "none", arg |-> << >>, returned |-> TRUE,
   appended |-> << >>, slides |-> << >>, removed |-> << >>,
   deleted |-> << >>, aborted |-> FALSE, content |-> << >>]

\* What the calls so far did in all: the number of ExtInf and of
\* ExtDiscontinuity entries erased from entries_, the number of ExtInf entries
\* appended, the last of them, the number of AddEncryptionInfo calls, and the
\* number of ExtInf entries appended since the last AddSignalExit that no
\* AddSignalReturn followed (-1 when there is none); where the next segment
\* begins, in ticks and in bytes, when it follows the last one given.
NoPlaylistHistory ==
  [evicted_ext_inf |-> 0, evicted_discontinuity |-> 0, segments |-> 0,
   last_segment |-> << >>, encryption_calls |-> 0, since_exit |-> -1,
   writes |-> 0, deleted |-> 0, clock |-> 0, offset |-> 0]

\* The handler after InitializeInternal and after OnStreamInfo of every input;
\* the framer and its parser after their constructors.
Init ==
  /\ \E config \in Configs :
       info = [s \in DOMAIN config |->
                 [stream_type |-> config[s], time_scale |-> TicksPerSecond]]
  /\ stream_states = [s \in DOMAIN info |-> InitStreamState]
  /\ sync_points = [events |-> << >>, cancelled |-> FALSE]
  /\ hint_ = GetHint(sync_points, -1)
  /\ dispatched = [s \in DOMAIN info |-> << >>]
  /\ flushed = FALSE
  /\ obtained = << >>
  /\ accepted = [s \in DOMAIN info |-> << >>]
  /\ added = 0
  /\ call = [n |-> 0, op |-> "Initialize", stream_index |-> 0,
             arg |-> << >>, status |-> "OK"]
  /\ wait_for_pusi_ = TRUE
  /\ sis_ = << >>
  /\ ts_call = [op |-> "TsSectionData", payload_unit_start_indicator |-> FALSE,
                buf |-> << >>, after_pusi |-> FALSE,
                result |-> TRUE, es |-> NoParse]
  /\ seen_pusi = FALSE
  /\ playlist = NoPlaylist
  /\ pl_call = NoPlaylistCall
  /\ pl_hist = NoPlaylistHistory
  /\ notifier = NoNotifier

\* The pipeline ends with the first call that fails, and with the final flush.
Running == call.status = "OK" /\ ~flushed

Return(op, s, arg, r) ==
  /\ stream_states' = r.h.stream_states
  /\ hint_' = r.h.hint_
  /\ sync_points' = r.h.sync_points
  /\ dispatched' = r.h.dispatched
  /\ flushed' = r.h.flushed
  /\ obtained' = r.h.obtained
  /\ call' = [n |-> call.n + 1, op |-> op, stream_index |-> s, arg |-> arg,
              status |-> r.status]
  /\ UNCHANGED << info, parser_vars, playlist_vars, notifier_vars >>

NewSample(s, pts, key) ==
  [id |-> Len(accepted[s]) + 1, pts |-> pts,
   duration |-> DurationOf(info[s].stream_type),
   is_key_frame |-> key, text |-> info[s].stream_type = "text"]

\* Process(kMediaSample / kTextSample) on stream s.
SampleCall(s, pts, key) ==
  /\ Running
  /\ ~stream_states[s].to_be_flushed
  /\ LET sample == NewSample(s, pts, key)
     IN /\ accepted' = [accepted EXCEPT ![s] = Append(@, sample)]
        /\ Return("OnSample", s, sample, OnSample(Handler, s, sample))
  /\ UNCHANGED added

\* Process(kScte35Event) on stream s.
SignalCall(s, pts, seg_type) ==
  /\ Running
  /\ ~stream_states[s].to_be_flushed
  /\ LET signal == [stream_index |-> s, start_time_pts |-> pts,
                    seg_type |-> seg_type]
         r == OnSignal(Handler, signal, added + 1)
     IN /\ Return("OnSignal", s, signal, r)
        /\ added' = IF r.h.sync_points = sync_points THEN added ELSE added + 1
  /\ UNCHANGED accepted

FlushCall(s) ==
  /\ Running
  /\ ~stream_states[s].to_be_flushed
  /\ Return("OnFlushRequest", s, << >>, OnFlushRequest(Handler, s))
  /\ UNCHANGED << accepted, added >>

\* SyncPointQueue::Cancel, from outside the handler.
Cancel ==
  /\ Running
  /\ ~sync_points.cancelled
  /\ sync_points' = [sync_points EXCEPT !.cancelled = TRUE]
  /\ UNCHANGED << info, stream_states, hint_, dispatched, flushed, obtained,
                  accepted, added, call, parser_vars, playlist_vars,
                  notifier_vars >>

KeyChoices(s) == IF info[s].stream_type = "video" THEN BOOLEAN ELSE {FALSE}

Next ==
  \/ \E s \in Streams, pts \in 0..MaxTime : \E key \in KeyChoices(s) :
       call.n < MaxCalls /\ SampleCall(s, pts, key)
  \/ \E s \in Streams, pts \in 0..MaxTime, seg_type \in SegTypes :
       call.n < MaxCalls /\ SignalCall(s, pts, seg_type)
  \/ \E s \in Streams : call.n < MaxCalls /\ FlushCall(s)

Spec == Init /\ [][Next]_vars

\* The handler calls together with a cancellation of the queue at any moment;
\* the signals are those of a START or an END type.
NextCancel ==
  \/ \E s \in Streams, pts \in 0..MaxTime : \E key \in KeyChoices(s) :
       call.n < MaxCalls /\ SampleCall(s, pts, key)
  \/ \E s \in Streams, pts \in 0..MaxTime :
       \E seg_type \in { t \in SegTypes :
                           SCTE35_START_EVENT(t) \/ SCTE35_END_EVENT(t) } :
         call.n < MaxCalls /\ SignalCall(s, pts, seg_type)
  \/ \E s \in Streams : call.n < MaxCalls /\ FlushCall(s)
  \/ Cancel

SpecCancel == Init /\ [][NextCancel]_vars

\* The buffer cap: one signal at time 0 holds the hint at 0, then samples of
\* time 0 pile up on the second stream while the first stream gives none.
NextBuffer ==
  \/ added = 0 /\ accepted[2] = << >> /\ SignalCall(1, 0, 52)
  \/ Len(accepted[2]) <= kMaxBufferSize /\ SampleCall(2, 0, FALSE)

SpecBuffer == Init /\ [][NextBuffer]_vars

\* ========================================================================
\* Part 2: the SCTE-35 section parser (media/formats/mp2t/es_parser_scte35.cc)
\* behind its TS-section framer (media/formats/mp2t/ts_section_data.cc).  A
\* buffer is a sequence of bytes; a Parse call is one atomic action.

\* sizeof(segmentation_descriptor_t), in bytes, of the x86-64 build.
sizeof_segmentation_descriptor_t == 4376

\* The slots of splice_info_section_t::segmentation_descriptor.
kSegmentationDescriptorSlots == 8

\* ---------------------------------------------------------------- BitReader
RECURSIVE BitsAt(_, _, _)
\* The value of the n bits of buf that follow its first pos bits, the most
\* significant first.
BitsAt(buf, pos, n) ==
  IF n = 0 THEN 0
  ELSE IF n >= 8 /\ (pos + n) % 8 = 0
       THEN 256 * BitsAt(buf, pos, n - 8) + buf[(pos + n) \div 8]
       ELSE LET last == pos + n - 1
            IN 2 * BitsAt(buf, pos, n - 1)
                 + ((buf[(last \div 8) + 1] \div (2 ^ (7 - (last % 8)))) % 2)

RECURSIVE Assign(_, _, _)
\* obj with the member at `path` set to v.
Assign(obj, path, v) ==
  IF path = << >> THEN v
  ELSE [obj EXCEPT ![Head(path)] = Assign(@, Tail(path), v)]

RECURSIVE Member(_, _)
\* The member of obj at `path`.
Member(obj, path) ==
  IF path = << >> THEN obj ELSE Member(obj[Head(path)], Tail(path))

\* A parse in progress is p = [buf, pos, ok, mem, ...]: the reader's buffer
\* and the number of bits it has read, whether every RCHECK so far passed,
\* and the memory written (mem.sis is *sis_, mem.splice_descriptor the local
\* of the descriptor loop).  A step on a parse that has failed does nothing:
\* the failed RCHECK has returned.
bits_available(p) == 8 * Len(p.buf) - p.pos

\* A value of more than 31 bits is kept as << value \div 2^16, value % 2^16 >>.
Wide(high, low) == << high, low >>

\* RCHECK(bit_reader.ReadBits(num_bits, &<path>)); the 32 bits read into an
\* int32_t member (e_crc_32, crc_32) become the number they are in two's
\* complement.
ReadBits(p, num_bits, path) ==
  IF ~p.ok THEN p
  ELSE IF num_bits > bits_available(p) THEN [p EXCEPT !.ok = FALSE]
  ELSE LET stored ==
             IF num_bits <= 31 THEN BitsAt(p.buf, p.pos, num_bits)
             ELSE IF path[Len(path)] \in {"e_crc_32", "crc_32"}
                  THEN IF BitsAt(p.buf, p.pos, 1) = 1
                       THEN (BitsAt(p.buf, p.pos + 1, 31) - 2147483647) - 1
                       ELSE BitsAt(p.buf, p.pos + 1, 31)
             ELSE Wide(BitsAt(p.buf, p.pos, num_bits - 16),
                       BitsAt(p.buf, p.pos + num_bits - 16, 16))
       IN [p EXCEPT !.pos = @ + num_bits, !.mem = Assign(@, path, stored)]

\* RCHECK(bit_reader.SkipBytes(num_bytes)); num_bytes is a size_t, a negative
\* int given for it is a number larger than any buffer.
SkipBytes(p, num_bytes) ==
  IF ~p.ok THEN p
  ELSE IF num_bytes < 0 \/ 8 * num_bytes > bits_available(p)
       THEN [p EXCEPT !.ok = FALSE]
  ELSE [p EXCEPT !.pos = @ + 8 * num_bytes]

RECURSIVE ReadFields(_, _)
\* A run of ReadBits: fields is a sequence of << num_bits, path >>.
ReadFields(p, fields) ==
  IF fields = << >> THEN p
  ELSE ReadFields(ReadBits(p, Head(fields)[1], Head(fields)[2]), Tail(fields))

\* ------------------------------------------------------------ scte35 types
\* The structs as value-initialisation leaves them.
\* The members of a union are kept apart: the parser reads none back.
splice_time_t ==
  [time_specified_flag |-> 0,
   time_spec |-> [time_specified_flag_reserved |-> 0, pts_time |-> Wide(0, 0)],
   reserved |-> 0]

\* An element of splice_insert_t::component_t.
component_t == [component_tag |-> 0, splice_time |-> splice_time_t]

component_tag_t == [component_tag |-> 0, reserved |-> 0, pts_offset |-> Wide(0, 0)]

splice_insert_t ==
  [splice_event_id |-> Wide(0, 0), splice_event_cancel_indicator |-> 0, reserved |-> 0,
   out_of_network_indicator |-> 0, program_splice_flag |-> 0,
   duration_flag |-> 0, splice_immediate_flag |-> 0,
   splice_event_reserved |-> 0, splice_time |-> splice_time_t,
   component_count |-> 0, component_t |-> << >>,  \* the elements written
   break_duration |-> [auto_return |-> 0, reserved |-> 0, duration |-> Wide(0, 0)],
   unique_program_id |-> 0, avail_num |-> 0, avails_expected |-> 0]

splice_descriptor_t ==
  [splice_descriptor_tag |-> 0, descriptor_length |-> 0, identifier |-> Wide(0, 0)]

segmentation_descriptor_t ==
  [descriptor |-> splice_descriptor_t, segmentation_event_id |-> Wide(0, 0),
   segmentation_event_cancel_indicator |-> 0, reserved |-> 0,
   program_segmentation_flag |-> 0, segmentation_duration_flag |-> 0,
   delivery_not_restricted_flag |-> 0,
   delivery_flags |-> [web_delivery_allowed_flag |-> 0,
                       no_regional_blackout_flag |-> 0,
                       archive_allowed_flag |-> 0, device_restrictions |-> 0],
   reserved_flags |-> 0, component_count |-> 0,
   \* the elements the parser can write: it indexes component_tags by
   \* segmentation_descriptor_count
   component_tags |->
     [i \in 0..(kSegmentationDescriptorSlots - 1) |-> component_tag_t],
   segmentation_duration |-> Wide(0, 0), segmentation_upid_type |-> 0,
   segmentation_upid_length |-> 0,
   segmentation_upid_data |-> << >>,  \* the elements written
   segmentation_type_id |-> 0, segment_num |-> 0, segments_expected |-> 0]

splice_info_section_t ==
  [table_id |-> 0, section_syntax_indicator |-> 0, private_indicator |-> 0,
   reserved |-> 0, section_length |-> 0, protocol_version |-> 0,
   encrypted_packet |-> 0, encryption_algorithm |-> 0, pts_adjustment |-> Wide(0, 0),
   cw_index |-> 0, tier |-> 0, splice_command_length |-> 0,
   splice_command_type |-> 0,
   splice_command |-> [splice_time_signal |-> splice_time_t,
                       splice_insert |-> splice_insert_t],
   descriptor_loop_length |-> 0, segmentation_descriptor_count |-> 0,
   segmentation_descriptor |->
     [i \in 0..(kSegmentationDescriptorSlots - 1) |-> segmentation_descriptor_t],
   alignment_stuffing_bytes_length |-> 0, e_crc_32 |-> 0, crc_32 |-> 0]

\* ----------------------------------------------------------- EsParserScte35
\* splice_time(), as parsed at three places, into the splice_time_t at `path`.
ParseSpliceTime(p, path) ==
  LET AfterFlag(flag) ==
        IF ~flag.ok THEN flag
        ELSE IF Member(flag.mem, path \o << "time_specified_flag" >>) # 0
        THEN ReadFields(flag,
               << << 6, path \o << "time_spec", "time_specified_flag_reserved" >> >>,
                  << 33, path \o << "time_spec", "pts_time" >> >> >>)
        ELSE ReadBits(flag, 7, path \o << "reserved" >>)
  IN AfterFlag(ReadBits(p, 1, path \o << "time_specified_flag" >>))

RECURSIVE ParseInsertComponents(_, _)
\* for (int i = 0; i < splice_insert->component_count; i++), from i on.
ParseInsertComponents(p, i) ==
  LET insert == p.mem.sis.splice_command.splice_insert
      path == << "sis", "splice_command", "splice_insert", "component_t", i + 1 >>
      AfterTag(tag) ==
        IF insert.splice_immediate_flag = 0
        THEN ParseSpliceTime(tag, path \o << "splice_time" >>)
        ELSE tag
  IN IF ~p.ok \/ i >= insert.component_count THEN p
     ELSE ParseInsertComponents(
            AfterTag(
              ReadBits([p EXCEPT !.mem.sis.splice_command.splice_insert.component_t =
                          Append(@, component_t)],
                       8, path \o << "component_tag" >>)),
            i + 1)

\* case 5: splice_insert()
ParseSpliceInsert(p) ==
  LET path == << "sis", "splice_command", "splice_insert" >>
      splice_insert(q) == q.mem.sis.splice_command.splice_insert
      AfterDuration(q) ==
        ReadFields(q,
          << << 16, path \o << "unique_program_id" >> >>,
             << 8, path \o << "avail_num" >> >>,
             << 8, path \o << "avails_expected" >> >> >>)
      AfterComponents(q) ==
        AfterDuration(
          IF splice_insert(q).duration_flag = 1
          THEN ReadFields(q,
                 << << 1, path \o << "break_duration", "auto_return" >> >>,
                    << 6, path \o << "break_duration", "reserved" >> >>,
                    << 33, path \o << "break_duration", "duration" >> >> >>)
          ELSE q)
      AfterTime(q) ==
        AfterComponents(
          IF splice_insert(q).program_splice_flag = 0
          THEN ParseInsertComponents(
                 ReadBits(q, 8, path \o << "component_count" >>), 0)
          ELSE q)
      AfterFlags(flags) ==
        IF ~flags.ok THEN flags
        ELSE AfterTime(
               IF splice_insert(flags).program_splice_flag = 1
                  /\ splice_insert(flags).splice_immediate_flag = 0
               THEN ParseSpliceTime(flags, path \o << "splice_time" >>)
               ELSE flags)
      AfterId(id) ==
        IF ~id.ok \/ splice_insert(id).splice_event_cancel_indicator # 0
        THEN id
        ELSE AfterFlags(
               ReadFields(id,
                 << << 1, path \o << "out_of_network_indicator" >> >>,
                    << 1, path \o << "program_splice_flag" >> >>,
                    << 1, path \o << "duration_flag" >> >>,
                    << 1, path \o << "splice_immediate_flag" >> >>,
                    << 4, path \o << "splice_event_reserved" >> >> >>))
  IN AfterId(
       ReadFields(p,
         << << 32, path \o << "splice_event_id" >> >>,
            << 1, path \o << "splice_event_cancel_indicator" >> >>,
            << 7, path \o << "reserved" >> >> >>))

\* case 6: time_signal()
ParseTimeSignal(p) ==
  ParseSpliceTime(p, << "sis", "splice_command", "splice_time_signal" >>)

\* &sis_->segmentation_descriptor[count]: a slot of the array, or, for a
\* count past the last slot, the memory behind the array, which is no more
\* of the section.
SlotPath(count) ==
  IF count < kSegmentationDescriptorSlots
  THEN << "sis", "segmentation_descriptor", count >>
  ELSE << "behind", count >>

RECURSIVE ParseSegmentationComponents(_, _)
\* for (int i = 0; i < psd->component_count; i++), from i on: every round
\* writes the element indexed by segmentation_descriptor_count.
ParseSegmentationComponents(p, i) ==
  LET count == p.mem.sis.segmentation_descriptor_count
      psd == Member(p.mem, SlotPath(count))
      path == SlotPath(count) \o << "component_tags", count >>
  IN IF ~p.ok \/ i >= psd.component_count THEN p
     ELSE ParseSegmentationComponents(
            ReadFields(p, << << 8, path \o << "component_tag" >> >>,
                             << 7, path \o << "reserved" >> >>,
                             << 33, path \o << "pts_offset" >> >> >>),
            i + 1)

RECURSIVE ParseUpidData(_, _)
\* for (int ii = 0; ii < psd->segmentation_upid_length; ii++), from ii on.
ParseUpidData(p, ii) ==
  LET count == p.mem.sis.segmentation_descriptor_count
      psd == Member(p.mem, SlotPath(count))
      path == SlotPath(count) \o << "segmentation_upid_data" >>
  IN IF ~p.ok \/ ii >= psd.segmentation_upid_length THEN p
     ELSE ParseUpidData(
            ReadBits([p EXCEPT !.mem = Assign(@, path, Append(psd.segmentation_upid_data, 0))],
                     8, path \o << ii + 1 >>),
            ii + 1)

\* The else branch of the descriptor loop: a segmentation_descriptor(), into
\* sis_->segmentation_descriptor[sis_->segmentation_descriptor_count].
ParseSegmentationDescriptor(p) ==
  LET count == p.mem.sis.segmentation_descriptor_count
      path == SlotPath(count)
      psd(q) == Member(q.mem, path)
      AfterDuration(q) ==
        ReadFields(
          ParseUpidData(
            ReadFields(q,
              << << 8, path \o << "segmentation_upid_type" >> >>,
                 << 8, path \o << "segmentation_upid_length" >> >> >>),
            0),
          << << 8, path \o << "segmentation_type_id" >> >>,
             << 8, path \o << "segment_num" >> >>,
             << 8, path \o << "segments_expected" >> >> >>)
      AfterComponents(q) ==
        AfterDuration(
          IF psd(q).segmentation_duration_flag = 1
          THEN ReadBits(q, 40, path \o << "segmentation_duration" >>)
          ELSE q)
      AfterDelivery(q) ==
        AfterComponents(
          IF psd(q).program_segmentation_flag = 0
          THEN ParseSegmentationComponents(
                 ReadBits(q, 8, path \o << "component_count" >>), 0)
          ELSE q)
      AfterFlags(flags) ==
        IF ~flags.ok THEN flags
        ELSE AfterDelivery(
               IF psd(flags).delivery_not_restricted_flag = 0
               THEN ReadFields(flags,
                      << << 1, path \o << "delivery_flags", "web_delivery_allowed_flag" >> >>,
                         << 1, path \o << "delivery_flags", "no_regional_blackout_flag" >> >>,
                         << 1, path \o << "delivery_flags", "archive_allowed_flag" >> >>,
                         << 2, path \o << "delivery_flags", "device_restrictions" >> >> >>)
               ELSE ReadBits(flags, 5, path \o << "reserved_flags" >>))
      AfterId(id) ==
        IF ~id.ok \/ psd(id).segmentation_event_cancel_indicator # 0
        THEN id
        ELSE AfterFlags(
               ReadFields(id,
                 << << 1, path \o << "program_segmentation_flag" >> >>,
                    << 1, path \o << "segmentation_duration_flag" >> >>,
                    << 1, path \o << "delivery_not_restricted_flag" >> >> >>))
  IN AfterId(
       ReadFields([p EXCEPT !.mem = Assign(@, path \o << "descriptor" >>,
                                           p.mem.splice_descriptor)],
         << << 32, path \o << "segmentation_event_id" >> >>,
            << 1, path \o << "segmentation_event_cancel_indicator" >> >>,
            << 7, path \o << "reserved" >> >> >>))

\* The descriptor loop skipping every byte of an unsupported descriptor's
\* length, those of the identifier again.
SkipUnsupportedDescriptor_WholeLength(p, splice_descriptor) ==
  SkipBytes(p, splice_descriptor.descriptor_length)

\* The then branch of the descriptor loop: an unsupported descriptor is
\* skipped, the identifier is already read.
SkipUnsupportedDescriptor(p, splice_descriptor) ==
  SkipBytes(p, splice_descriptor.descriptor_length - 4)

RECURSIVE ParseDescriptors(_, _)
\* while (loop_remaining > 0) { ... } RCHECK(loop_remaining==0).  Each round
\* is noted in p.descriptors: where it began and ended, whether it ended, and
\* the index of the slot it parsed a segmentation descriptor into (-1 when it
\* skipped the descriptor).
ParseDescriptors(p, loop_remaining) ==
  LET Stored(psd) ==
        IF ~psd.ok THEN psd
        ELSE [psd EXCEPT !.mem.sis.segmentation_descriptor_count = @ + 1]
      Body(head) ==
        IF head.mem.splice_descriptor.splice_descriptor_tag # 2
        THEN SkipUnsupportedDescriptor(head, head.mem.splice_descriptor)
        ELSE Stored(ParseSegmentationDescriptor(head))
      Round(head, body) ==
        [tag |-> head.mem.splice_descriptor.splice_descriptor_tag,
         descriptor_length |-> head.mem.splice_descriptor.descriptor_length,
         begin |-> p.pos, end |-> body.pos, ended |-> body.ok,
         slot |-> IF head.mem.splice_descriptor.splice_descriptor_tag = 2
                  THEN head.mem.sis.segmentation_descriptor_count ELSE -1,
         stored |-> body.mem.sis.segmentation_descriptor_count
                      - head.mem.sis.segmentation_descriptor_count]
      AfterBody(head, body) ==
        ParseDescriptors(
          [body EXCEPT !.descriptors = Append(@, Round(head, body))],
          loop_remaining - (head.mem.splice_descriptor.descriptor_length + 2))
      AfterHead(head) ==
        IF ~head.ok THEN head ELSE AfterBody(head, Body(head))
  IN IF ~p.ok THEN p
     ELSE IF loop_remaining <= 0
          THEN [p EXCEPT !.ok = (loop_remaining = 0),
                         !.loop_end = IF loop_remaining = 0 THEN p.pos ELSE -1]
     ELSE AfterHead(
            ReadFields(p,
              << << 8, << "splice_descriptor", "splice_descriptor_tag" >> >>,
                 << 8, << "splice_descriptor", "descriptor_length" >> >>,
                 << 32, << "splice_descriptor", "identifier" >> >> >>))

\* The switch going on after a command that is neither splice_insert nor
\* time_signal, as if it were empty.
UnsupportedCommand_GoOn(p) == p

\* default: LOG(ERROR); return false;
UnsupportedCommand(p) == [p EXCEPT !.ok = FALSE]

\* What follows the descriptor loop: the stuffing and e_crc_32 of an encrypted
\* packet, then crc_32.
ParseCrc(p) ==
  LET total_read_bytes == bits_available(p) \div 8
      remaining_section_bytes == p.mem.sis.section_length + 3 - total_read_bytes
      \* the member is a uint8_t
      alignment_stuffing_bytes_length == (remaining_section_bytes - 4 - 4) % 256
      Crc32(e_crc_32) ==
        ReadBits([e_crc_32 EXCEPT !.crc_begin =
                    IF e_crc_32.ok THEN e_crc_32.pos ELSE -1],
                 32, << "sis", "crc_32" >>)
  IN IF ~p.ok THEN p
     ELSE Crc32(
            IF p.mem.sis.encrypted_packet # 0
            THEN ReadBits(
                   SkipBytes(
                     [p EXCEPT !.mem.sis.alignment_stuffing_bytes_length =
                                 alignment_stuffing_bytes_length],
                     alignment_stuffing_bytes_length),
                   32, << "sis", "e_crc_32" >>)
            ELSE p)

\* Where the reader is noted under `mark`, when the parse has not failed.
Mark(p, mark) == IF p.ok THEN [p EXCEPT ![mark] = p.pos] ELSE p

\* EsParserScte35::Parse(buf, size, pts, dts): the section it leaves in sis_
\* and a report: whether it returned true, the sections it gave to
\* new_splice_info_cb_, the bits the reader read in all, after the header and
\* after the command, where the descriptor loop began and ended, where the
\* reader was when crc_32 (or e_crc_32) was read, and the rounds of the loop.
Parse(buf) ==
  LET start == [buf |-> buf, pos |-> 0, ok |-> TRUE,
                mem |-> [sis |-> splice_info_section_t,
                         splice_descriptor |-> splice_descriptor_t,
                         behind |->
                           [i \in kSegmentationDescriptorSlots
                                    ..(kSegmentationDescriptorSlots + MaxSlotDescriptors)
                              |-> segmentation_descriptor_t]],
                descriptors |-> << >>, header_end |-> -1, command_end |-> -1,
                loop_begin |-> -1, loop_end |-> -1, crc_begin |-> -1]
      Report(crc) ==
        [sis |-> crc.mem.sis,
         report |->
           [parsed |-> TRUE, buf |-> buf, ok |-> crc.ok,
            callbacks |-> IF crc.ok THEN << crc.mem.sis >> ELSE << >>,
            pos |-> crc.pos,
            header_end |-> crc.header_end,
            command_end |-> crc.command_end,
            loop_begin |-> crc.loop_begin,
            loop_end |-> crc.loop_end,
            crc_begin |-> crc.crc_begin,
            descriptors |-> crc.descriptors]]
      AfterLoopLength(loop_length) ==
        Report(
          ParseCrc(
            IF loop_length.ok
               /\ loop_length.mem.sis.descriptor_loop_length
                    > sizeof_segmentation_descriptor_t * 8
            THEN [loop_length EXCEPT !.ok = FALSE]
            ELSE ParseDescriptors(loop_length,
                                  loop_length.mem.sis.descriptor_loop_length)))
      AfterCommand(command) ==
        AfterLoopLength(
          Mark(ReadBits(Mark(command, "command_end"),
                        16, << "sis", "descriptor_loop_length" >>),
               "loop_begin"))
      AfterHeader(header) ==
        AfterCommand(
          IF ~header.ok THEN header
          ELSE IF header.mem.sis.splice_command_type = 5
               THEN ParseSpliceInsert(header)
          ELSE IF header.mem.sis.splice_command_type = 6
               THEN ParseTimeSignal(header)
          ELSE UnsupportedCommand(header))
  IN AfterHeader(
       Mark(ReadFields(start,
              << << 8, << "sis", "table_id" >> >>,
                 << 1, << "sis", "section_syntax_indicator" >> >>,
                 << 1, << "sis", "private_indicator" >> >>,
                 << 2, << "sis", "reserved" >> >>,
                 << 12, << "sis", "section_length" >> >>,
                 << 8, << "sis", "protocol_version" >> >>,
                 << 1, << "sis", "encrypted_packet" >> >>,
                 << 6, << "sis", "encryption_algorithm" >> >>,
                 << 33, << "sis", "pts_adjustment" >> >>,
                 << 8, << "sis", "cw_index" >> >>,
                 << 12, << "sis", "tier" >> >>,
                 << 12, << "sis", "splice_command_length" >> >>,
                 << 8, << "sis", "splice_command_type" >> >> >>),
            "header_end"))

\* void EsParserScte35::Flush(): the held section, << >> for a null sis_.
Flush(held) == IF held # << >> THEN << >> ELSE held

\* void EsParserScte35::Reset()
Reset(held) == << >>

\* ------------------------------------------------------------ TsSectionData
\* TsSectionData::Parse(payload_unit_start_indicator, buf, size), with the
\* parser holding `held`: what it returns, what the parser holds afterwards
\* and what EsParserScte35::Parse reported, NoParse when it was not called.
TsSectionParse(wait_for_pusi, held, payload_unit_start_indicator, buf) ==
  LET Returned(parse) ==
        [result |-> parse.report.ok, held |-> << parse.sis >>,
         es |-> parse.report]
  IN IF wait_for_pusi /\ ~payload_unit_start_indicator
     THEN [result |-> TRUE, held |-> held, es |-> NoParse]
     ELSE Returned(Parse(IF payload_unit_start_indicator
                         THEN SubSeq(buf, 2 + buf[1], Len(buf))
                         ELSE buf))

\* ------------------------------------------------------------------ inputs
RECURSIVE Bytes(_, _)
\* The n bytes of v, the most significant first.
Bytes(v, n) ==
  IF n = 0 THEN << >> ELSE Bytes(v \div 256, n - 1) \o << v % 256 >>

\* "CUEI"
Identifier == << 67, 85, 69, 73 >>

\* The splice commands given: their splice_command_type and their bytes.
Commands ==
  { "splice_null", "splice_insert", "splice_insert_cancel",
    "splice_insert_components", "time_signal", "time_signal_no_time" }

CommandType(command) ==
  CASE command = "splice_null" -> 0
    [] command \in { "splice_insert", "splice_insert_cancel",
                     "splice_insert_components" } -> 5
    [] OTHER -> 6

CommandBytes(command) ==
  CASE command = "splice_null" -> << >>
    \* event 0x4800000f, out of network, program splice at pts 0x07369c02e,
    \* with a break duration
    [] command = "splice_insert" ->
         << 72, 0, 0, 15, 127, 239, 254, 115, 105, 192, 46,
            254, 0, 82, 204, 245, 0, 0, 0, 0 >>
    [] command = "splice_insert_cancel" -> << 72, 0, 0, 15, 255 >>
    \* component splice mode, one component, no time specified
    [] command = "splice_insert_components" ->
         << 72, 0, 0, 15, 127, 143, 1, 33, 127, 0, 0, 0, 0 >>
    [] command = "time_signal" -> << 254, 115, 105, 192, 46 >>
    [] OTHER -> << 127 >>

\* The splice descriptors given.
Descriptors ==
  { "avail", "short", "segmentation_cancel", "segmentation",
    "segmentation_sub_segments", "segmentation_components" }

DescriptorBytes(descriptor) ==
  CASE descriptor = "avail" -> << 0, 8 >> \o Identifier \o << 0, 0, 0, 1 >>
    \* a DTMF descriptor cut down to a descriptor_length of 3
    [] descriptor = "short" -> << 1, 3, 67, 85, 69 >>
    [] descriptor = "segmentation_cancel" ->
         << 2, 9 >> \o Identifier \o << 0, 0, 0, 1, 255 >>
    \* program segmentation, no duration, no upid, type 0x35
    [] descriptor = "segmentation" ->
         << 2, 15 >> \o Identifier
           \o << 0, 0, 0, 2, 127, 191, 0, 0, 53, 0, 0 >>
    \* the same of type 0x34, with sub_segment_num and sub_segments_expected
    [] descriptor = "segmentation_sub_segments" ->
         << 2, 17 >> \o Identifier
           \o << 0, 0, 0, 3, 127, 191, 0, 0, 52, 0, 0, 1, 2 >>
    \* one component, delivery restrictions, a duration, a upid of 2 bytes
    [] OTHER ->
         << 2, 29 >> \o Identifier
           \o << 0, 0, 0, 4, 127, 95, 1, 33, 254, 0, 0, 0, 9,
                 0, 0, 41, 50, 224, 8, 2, 171, 205, 48, 1, 1 >>

RECURSIVE DescriptorLists(_)
\* The sequences of at most n descriptors.
DescriptorLists(n) ==
  IF n = 0 THEN { << >> }
  ELSE DescriptorLists(n - 1)
         \cup { << d >> \o list : d \in Descriptors,
                 list \in { l \in DescriptorLists(n - 1) : Len(l) = n - 1 } }

RECURSIVE LoopBytes(_)
LoopBytes(list) ==
  IF list = << >> THEN << >>
  ELSE DescriptorBytes(Head(list)) \o LoopBytes(Tail(list))

\* What ends a section: crc_32 alone, or the stuffing of an encrypted packet,
\* e_crc_32 and crc_32.
Endings == { "clear", "encrypted", "encrypted_stuffed" }

EndingBytes(ending) ==
  CASE ending = "clear" -> << 222, 173, 190, 239 >>
    [] ending = "encrypted" -> << 1, 2, 3, 4, 222, 173, 190, 239 >>
    [] OTHER -> << 255, 255, 1, 2, 3, 4, 222, 173, 190, 239 >>

\* How a section departs from a well-formed one: by what its declared
\* section_length, splice_command_length and descriptor_loop_length are off,
\* and by how many bytes follow it (+) or are cut from its end (-).
NoDeparture == [section_length |-> 0, splice_command_length |-> 0,
                descriptor_loop_length |-> 0, size |-> 0]

Departures ==
  { [NoDeparture EXCEPT ![f] = d] :
      f \in DOMAIN NoDeparture, d \in -MaxDeparture..MaxDeparture }

Max0(n) == IF n < 0 THEN 0 ELSE n

\* The bytes of the section with the given command, descriptors and ending.
Section(command, list, ending, departure) ==
  LET loop == LoopBytes(list)
      after_length == 11 + Len(CommandBytes(command)) + 2 + Len(loop)
                        + Len(EndingBytes(ending))
      section_length == Max0(after_length + departure.section_length)
      splice_command_length ==
        Max0(Len(CommandBytes(command)) + departure.splice_command_length)
      descriptor_loop_length ==
        Max0(Len(loop) + departure.descriptor_loop_length)
      bytes ==
        << 252, 48 + (section_length \div 256), section_length % 256, 0,
           IF ending = "clear" THEN 0 ELSE 128, 0, 0, 0, 0, 0,
           255, 240 + (splice_command_length \div 256),
           splice_command_length % 256, CommandType(command) >>
          \o CommandBytes(command) \o Bytes(descriptor_loop_length, 2)
          \o loop \o EndingBytes(ending)
  IN IF departure.size < 0
     THEN SubSeq(bytes, 1, Len(bytes) + departure.size)
     ELSE bytes \o [i \in 1..departure.size |-> 255]

\* The sections given: the well-formed ones, and the departures of those of
\* at most one descriptor.
Sections ==
  { Section(command, list, ending, NoDeparture) :
      command \in Commands, list \in DescriptorLists(MaxDescriptors),
      ending \in Endings }
    \cup { Section(command, list, ending, departure) :
             command \in Commands, list \in DescriptorLists(1),
             ending \in Endings, departure \in Departures }

\* A payload that starts a section: the pointer field, the bytes it points
\* over, the section.
Payload(pointer, section) ==
  << pointer >> \o [i \in 1..pointer |-> 255] \o section

\* The payloads given to a framer that has been given none yet.
FirstPayloads == { Payload(0, section) : section \in Sections }

\* The payloads given later: a section in one payload, one that fails, one
\* that is split between a payload and its continuation.
WholeSection == Section("time_signal", << "segmentation" >>, "clear", NoDeparture)

NextPayloads ==
  { Payload(0, WholeSection), Payload(1, WholeSection),
    Payload(0, Section("splice_null", << >>, "clear", NoDeparture)),
    Payload(0, SubSeq(WholeSection, 1, 20)) }

Continuations ==
  { SubSeq(WholeSection, 21, Len(WholeSection)), << 255, 255 >> }

\* ------------------------------------------------- the framer's calls
TsReturn(op, payload_unit_start_indicator, buf, r) ==
  /\ sis_' = r.held
  /\ ts_call' = [op |-> op,
                 payload_unit_start_indicator |-> payload_unit_start_indicator,
                 buf |-> buf, after_pusi |-> seen_pusi,
                 result |-> r.result, es |-> r.es]
  /\ seen_pusi' = (seen_pusi \/ payload_unit_start_indicator)
  /\ UNCHANGED << wait_for_pusi_, handler_vars, playlist_vars,
                  notifier_vars >>

\* TsSectionData::Parse
TsParseCall(payload_unit_start_indicator, buf) ==
  TsReturn("Parse", payload_unit_start_indicator, buf,
           TsSectionParse(wait_for_pusi_, sis_, payload_unit_start_indicator, buf))

\* TsSectionData::Flush
TsFlushCall ==
  TsReturn("Flush", FALSE, << >>,
           [result |-> TRUE, held |-> Flush(sis_), es |-> NoParse])

\* TsSectionData::Reset
TsResetCall ==
  TsReturn("Reset", FALSE, << >>,
           [result |-> TRUE, held |-> Reset(sis_), es |-> NoParse])

\* The calls of the demuxer on the framer of the SCTE-35 pid.
NextParser ==
  \/ ts_call.op = "TsSectionData"
       /\ \E buf \in FirstPayloads : TsParseCall(TRUE, buf)
  \/ \E buf \in NextPayloads : TsParseCall(TRUE, buf)
  \/ \E buf \in Continuations : TsParseCall(FALSE, buf)
  \/ TsFlushCall
  \/ TsResetCall

\* One handler configuration is enough here: the handler takes no step.
InitParser == Init /\ info[1].stream_type = "video"

SpecParser == InitParser /\ [][NextParser]_vars

\* ------------------------------------------------- the slots of a section
RECURSIVE Repeated(_, _)
\* n descriptors of one kind.
Repeated(descriptor, n) ==
  IF n = 0 THEN << >> ELSE << descriptor >> \o Repeated(descriptor, n - 1)

\* The sections given to fill the slots: a time_signal with up to
\* MaxSlotDescriptors segmentation descriptors of one kind, behind an avail
\* descriptor or not.
SlotSections ==
  { Section("time_signal", front \o Repeated(descriptor, n), ending, NoDeparture) :
      front \in { << >>, << "avail" >> },
      descriptor \in { "segmentation_cancel", "segmentation" },
      n \in 0..MaxSlotDescriptors, ending \in { "clear", "encrypted" } }

\* A round of the descriptor loop wrote behind the array of slots.
Overran(es) ==
  \E i \in 1..Len(es.descriptors) :
     es.descriptors[i].slot >= kSegmentationDescriptorSlots

\* What a build does after a write behind the array, which is undefined: the
\* call goes on with the memory behind the array as if it were a slot, or the
\* process ends.
OverrunOutcomes == { "returns", "ends" }

\* TsSectionData::Parse of a payload that starts a section.
SlotsParseCall(buf, outcome) ==
  LET r == TsSectionParse(wait_for_pusi_, sis_, TRUE, buf)
  IN /\ ts_call.op # "Ended"
     /\ outcome = "ends" => Overran(r.es)
     /\ IF outcome = "ends"
        THEN /\ ts_call' = [op |-> "Ended", payload_unit_start_indicator |-> TRUE,
                            buf |-> buf, after_pusi |-> seen_pusi,
                            result |-> FALSE, es |-> r.es]
             /\ UNCHANGED << sis_, seen_pusi, wait_for_pusi_, handler_vars,
                             playlist_vars, notifier_vars >>
        ELSE TsReturn("Parse", TRUE, buf, r)

NextSlots ==
  \/ \E section \in SlotSections, outcome \in OverrunOutcomes :
       SlotsParseCall(Payload(0, section), outcome)
  \/ ts_call.op # "Ended" /\ TsFlushCall
  \/ ts_call.op # "Ended" /\ TsResetCall

SpecSlots == InitParser /\ [][NextSlots]_vars

\* ========================================================================
\* Part 3: the HLS media playlist (hls/base/media_playlist.cc).  One playlist
\* is constructed, given its MediaInfo, and then called; a call is one atomic
\* action.  A double that holds seconds is kept as the whole number of
\* 1/PlaylistTimeScale seconds it is: the time scales given divide exactly.

\* seconds, a whole number, as a double.
Seconds(seconds) == seconds * PlaylistTimeScale

\* static_cast<double>(ticks) / time_scale
InSeconds(ticks, time_scale) == (ticks * PlaylistTimeScale) \div time_scale

\* ceil(d)
Ceil(d) == (d + PlaylistTimeScale - 1) \div PlaylistTimeScale

\* A double given for an int64_t: the fraction is dropped.
Truncated(d) == d \div PlaylistTimeScale

\* "%.3f" of d: the thousandths of a second nearest to d.
Millis(d) == (2000 * d + PlaylistTimeScale) \div (2 * PlaylistTimeScale)

\* ----------------------------------------------------------------- entries
\* HlsEntry(type), with the members of every derived class at zero.  The
\* file name, the key id of an EXT-X-KEY and the like are numbers here.
HlsEntry(type) ==
  [type |-> type, file_name |-> 0, start_time |-> 0, duration |-> 0,
   use_byte_range |-> FALSE, start_byte_offset |-> 0, segment_file_size |-> 0,
   previous_segment_end_offset |-> 0, key_id |-> 0, position |-> 0]

\* The end offset taken for the offset of the byte after the segment.
Uint64MinusOne_Same(value) == value

\* A uint64_t minus one; -1 stands for 2^64 - 1, to which one added is 0.
Uint64MinusOne(value) == value - 1

SegmentInfoEntry(file_name, start_time, duration, use_byte_range, start_byte_offset, segment_file_size, previous_segment_end_offset) ==
  [HlsEntry("kExtInf") EXCEPT
     !.file_name = file_name, !.start_time = start_time,
     !.duration = duration, !.use_byte_range = use_byte_range,
     !.start_byte_offset = start_byte_offset,
     !.segment_file_size = segment_file_size,
     !.previous_segment_end_offset = previous_segment_end_offset]

EncryptionInfoEntry(key_id) == [HlsEntry("kExtKey") EXCEPT !.key_id = key_id]

DiscontinuityEntry == HlsEntry("kExtDiscontinuity")

PlacementOpportunityEntry == HlsEntry("kExtPlacementOpportunity")

SignalExitEntry(duration) ==
  [HlsEntry("kExtSignalExit") EXCEPT !.duration = duration]

SignalSpanEntry(position, duration) ==
  [HlsEntry("kExtSignalSpan") EXCEPT !.position = position,
                                     !.duration = duration]

SignalReturnEntry(duration) ==
  [HlsEntry("kExtSignalReturn") EXCEPT !.duration = duration]

\* SegmentInfoEntry::ToString(), as the lines it makes.
SegmentInfoEntryToString(entry) ==
  << << "#EXTINF", Millis(entry.duration) >> >>
  \o (IF entry.use_byte_range
      THEN << << "#EXT-X-BYTERANGE", entry.segment_file_size >>
                \o (IF entry.previous_segment_end_offset + 1
                         # entry.start_byte_offset
                    THEN << "@", entry.start_byte_offset >>
                    ELSE << >>) >>
      ELSE << >>)
  \o << << entry.file_name >> >>

\* entry->ToString(), as the lines it makes.
EntryToString(entry) ==
  CASE entry.type = "kExtInf" -> SegmentInfoEntryToString(entry)
    [] entry.type = "kExtKey" -> << << "#EXT-X-KEY", entry.key_id >> >>
    [] entry.type = "kExtDiscontinuity" -> << << "#EXT-X-DISCONTINUITY" >> >>
    [] entry.type = "kExtPlacementOpportunity" ->
         << << "#EXT-X-PLACEMENT-OPPORTUNITY" >> >>
    [] entry.type = "kExtSignalExit" ->
         << << "#EXT-X-SIGNAL-EXIT", entry.duration, "LiveDAI" >> >>
    [] entry.type = "kExtSignalSpan" ->
         << << "#EXT-X-SIGNAL-SPAN", entry.position, entry.duration,
               "LiveDAI" >> >>
    [] entry.type = "kExtSignalReturn" ->
         << << "#EXT-X-SIGNAL-RETURN", entry.duration, "LiveDAI" >> >>

\* CreatePlaylistHeader(...), as the lines it makes; the version line and the
\* EXT-X-MAP line depend on nothing that changes.
CreatePlaylistHeader(media_info, target_duration, type, stream_type, media_sequence_number, discontinuity_sequence_number) ==
  << << "#EXTM3U" >>, << "#EXT-X-VERSION:6" >>,
     << "#EXT-X-TARGETDURATION", target_duration >> >>
  \o (CASE type = "kVod" -> << << "#EXT-X-PLAYLIST-TYPE:VOD" >> >>
        [] type = "kEvent" -> << << "#EXT-X-PLAYLIST-TYPE:EVENT" >> >>
        [] type = "kLive" ->
             (IF media_sequence_number > 0
              THEN << << "#EXT-X-MEDIA-SEQUENCE", media_sequence_number >> >>
              ELSE << >>)
             \o (IF discontinuity_sequence_number > 0
                 THEN << << "#EXT-X-DISCONTINUITY-SEQUENCE",
                            discontinuity_sequence_number >> >>
                 ELSE << >>))
  \o (IF stream_type = "kVideoIFramesOnly"
      THEN << << "#EXT-X-I-FRAMES-ONLY" >> >>
      ELSE << >>)
  \o (IF media_info.has_init_segment_url
      THEN << << "#EXT-X-MAP" >> >>
      ELSE << >>)

RECURSIVE LatestSegmentStartTime(_)
\* The start time of the last ExtInf of entries, 0.0 when there is none.
LatestSegmentStartTime(entries) ==
  IF entries = << >> THEN 0
  ELSE IF entries[Len(entries)].type = "kExtInf"
       THEN entries[Len(entries)].start_time
  ELSE LatestSegmentStartTime(SubSeq(entries, 1, Len(entries) - 1))

\* ------------------------------------------------------------ MediaPlaylist
\* MediaPlaylist::MediaPlaylist(hls_params, ...): the members as the class
\* initialises them.
MediaPlaylist(hls_params) ==
  [constructed |-> TRUE, hls_params_ |-> hls_params,
   media_info_ |-> [has_reference_time_scale |-> FALSE,
                    reference_time_scale |-> 0, has_video_info |-> FALSE,
                    has_audio_info |-> FALSE, time_scale |-> 0,
                    has_segment_template_url |-> FALSE,
                    has_init_segment_url |-> FALSE],
   stream_type_ |-> "kUnknown", time_scale_ |-> 0, use_byte_range_ |-> FALSE,
   entries_ |-> << >>, key_frames_ |-> << >>,
   media_sequence_number_ |-> 0, discontinuity_sequence_number_ |-> 0,
   inserted_discontinuity_tag_ |-> FALSE, longest_segment_duration_ |-> 0,
   previous_segment_end_offset_ |-> 0,
   target_duration_ |-> 0, target_duration_set_ |-> FALSE,
   in_ad_state_ |-> FALSE, ad_duration_ |-> 0, ad_position_ |-> 0,
   ad_segments_ |-> 0, segments_to_be_removed_ |-> << >>]

\* A call in progress on the playlist `this`: the object and what the call
\* did so far (see NoPlaylistCall).
Called(this) ==
  [this |-> this, returned |-> TRUE, appended |-> << >>, slides |-> << >>,
   removed |-> << >>, deleted |-> << >>, aborted |-> FALSE,
   content |-> << >>]

GetTimeScale(media_info) ==
  IF media_info.has_reference_time_scale THEN media_info.reference_time_scale
  ELSE IF media_info.has_video_info THEN media_info.time_scale
  ELSE IF media_info.has_audio_info THEN media_info.time_scale
  ELSE 0

\* bool MediaPlaylist::SetMediaInfo(media_info)
SetMediaInfo(c, media_info) ==
  IF GetTimeScale(media_info) = 0 THEN [c EXCEPT !.returned = FALSE]
  ELSE [c EXCEPT
          !.this.stream_type_ =
             IF media_info.has_video_info THEN "kVideo"
             ELSE IF media_info.has_audio_info THEN "kAudio"
             ELSE "kSubtitle",
          !.this.time_scale_ = GetTimeScale(media_info),
          !.this.media_info_ = media_info,
          !.this.use_byte_range_ = ~media_info.has_segment_template_url]

\* entries_.emplace_back(entry)
EmplaceBack(c, entry) ==
  [c EXCEPT !.this.entries_ = Append(@, entry),
            !.appended = Append(@, entry)]

\* void MediaPlaylist::AddKeyFrame(timestamp, start_byte_offset, size)
AddKeyFrame(c, timestamp, start_byte_offset, size) ==
  LET PushBack(d) ==
        [d EXCEPT !.this.key_frames_ =
                    Append(@, [timestamp |-> timestamp,
                               start_byte_offset |-> start_byte_offset,
                               size |-> size])]
  IN IF c.this.stream_type_ # "kVideoIFramesOnly"
     THEN IF c.this.stream_type_ # "kVideo" THEN c
          ELSE PushBack([c EXCEPT !.this.stream_type_ = "kVideoIFramesOnly",
                                  !.this.use_byte_range_ = TRUE])
     ELSE PushBack(c)

\* AddEncryptionInfo with inserted_discontinuity_tag_ never raised.
AddEncryptionInfo_EveryCall(c, key_id) ==
  EmplaceBack(IF c.this.entries_ # << >>
              THEN EmplaceBack(c, DiscontinuityEntry)
              ELSE c,
              EncryptionInfoEntry(key_id))

\* void MediaPlaylist::AddEncryptionInfo(method, url, key_id, ...)
AddEncryptionInfo(c, key_id) ==
  EmplaceBack(
    IF ~c.this.inserted_discontinuity_tag_
    THEN [(IF c.this.entries_ # << >>
           THEN EmplaceBack(c, DiscontinuityEntry)
           ELSE c)
          EXCEPT !.this.inserted_discontinuity_tag_ = TRUE]
    ELSE c,
    EncryptionInfoEntry(key_id))

\* void MediaPlaylist::AddPlacementOpportunity()
AddPlacementOpportunity(c) == EmplaceBack(c, PlacementOpportunityEntry)

\* void MediaPlaylist::AddSignalExit(type, duration, ...)
AddSignalExit(c, duration) ==
  [EmplaceBack(c, SignalExitEntry(duration))
   EXCEPT !.this.in_ad_state_ = TRUE, !.this.ad_duration_ = duration,
          !.this.ad_position_ = 0, !.this.ad_segments_ = 0]

\* void MediaPlaylist::AddSignalSpan(type, position, duration)
AddSignalSpan(c, position, duration) ==
  EmplaceBack(c, SignalSpanEntry(position, duration))

\* void MediaPlaylist::AddSignalReturn(type, duration)
AddSignalReturn(c, duration) ==
  [EmplaceBack(c, SignalReturnEntry(duration))
   EXCEPT !.this.in_ad_state_ = FALSE]

\* SetTargetDuration leaving the playlist's target duration as it was.
SetTargetDuration_Ignored(c, target_duration) == c

\* void MediaPlaylist::SetTargetDuration(target_duration)
SetTargetDuration(c, target_duration) ==
  IF c.this.target_duration_set_ /\ c.this.target_duration_ = target_duration
  THEN c
  ELSE [c EXCEPT !.this.target_duration_ = target_duration,
                 !.this.target_duration_set_ = TRUE]

RECURSIVE EntriesToString(_)
\* for (const auto& entry : entries_) StringAppendF(&content, "%s\n", ...)
EntriesToString(entries) ==
  IF entries = << >> THEN << >>
  ELSE EntryToString(Head(entries)) \o EntriesToString(Tail(entries))

\* WriteToFile leaving nothing to write a second time.
WriteToFile_MoveEntries(c) ==
  [c EXCEPT !.content = EntriesToString(c.this.entries_),
            !.this.entries_ = << >>]

\* bool MediaPlaylist::WriteToFile(file_path): the file is written.
WriteToFile(c) ==
  LET Content(d) ==
        [d EXCEPT !.content =
           CreatePlaylistHeader(
             d.this.media_info_, d.this.target_duration_,
             d.this.hls_params_.playlist_type, d.this.stream_type_,
             d.this.media_sequence_number_,
             d.this.discontinuity_sequence_number_)
           \o EntriesToString(d.this.entries_)
           \o (IF d.this.hls_params_.playlist_type = "kVod"
               THEN << << "#EXT-X-ENDLIST" >> >>
               ELSE << >>)]
  IN Content(IF ~c.this.target_duration_set_
             THEN SetTargetDuration(c, Ceil(c.this.longest_segment_duration_))
             ELSE c)

RECURSIVE DeleteOldSegments(_)
\* while (segments_to_be_removed_.size() > preserved...) { File::Delete; pop }
DeleteOldSegments(c) ==
  IF Len(c.this.segments_to_be_removed_)
       > c.this.hls_params_.preserved_segments_outside_live_window
  THEN DeleteOldSegments(
         [c EXCEPT !.deleted = Append(@, Head(c.this.segments_to_be_removed_)),
                   !.this.segments_to_be_removed_ = Tail(@)])
  ELSE c

\* void MediaPlaylist::RemoveOldSegment(int64_t start_time): the segment name
\* is the pair GetSegmentName makes it from.
RemoveOldSegment(c, start_time) ==
  LET Noted(d) == [d EXCEPT !.removed = Append(@, start_time)]
  IN IF c.this.hls_params_.preserved_segments_outside_live_window = 0
     THEN Noted(c)
     ELSE IF c.this.stream_type_ = "kVideoIFramesOnly" THEN Noted(c)
     ELSE DeleteOldSegments(
            Noted([c EXCEPT !.this.segments_to_be_removed_ =
                     Append(@, [time |-> start_time,
                                number |-> c.this.media_sequence_number_])]))

\* What the loop of SlideWindow reads as a SegmentInfoEntry from an entry
\* that is none, beyond the object: the DCHECK_EQ of a build with DCHECKs
\* ends the process, any other build reads two doubles that can be anything.
OutOfBoundsReads ==
  { [dcheck |-> TRUE, start_time |-> 0, duration |-> 0] }
  \cup { [dcheck |-> FALSE, start_time |-> start_time, duration |-> 0] :
           start_time \in { -Infinity, Infinity } }

\* The loop of SlideWindow stopping only at an ExtInf that begins after the
\* limit.
StopsAt_StartTime(segment_info, timeshift_limit) ==
  timeshift_limit < segment_info.start_time

\* if (timeshift_limit < last_segment_end_time) break;
StopsAt(segment_info, timeshift_limit) ==
  timeshift_limit < segment_info.start_time + segment_info.duration

\* *reinterpret_cast<SegmentInfoEntry*>(last->get()) in the else branch,
\* which every entry type without a branch of its own reaches.
SegmentInfoOf(entry, read) ==
  IF entry.type = "kExtInf"
  THEN [dcheck |-> FALSE, start_time |-> entry.start_time,
        duration |-> entry.duration]
  ELSE read

\* The end of SlideWindow: entries_.erase(begin, last), then the keys are put
\* back at the head.  The slide is noted: entries_ before and after, and the
\* index of the first entry that stayed.
SlideEnd(c, last, ext_x_keys) ==
  [c EXCEPT
     !.this.entries_ = ext_x_keys \o SubSeq(@, last, Len(@)),
     !.slides = Append(@, [before |-> c.this.entries_,
                           after |-> ext_x_keys
                                       \o SubSeq(c.this.entries_, last,
                                                 Len(c.this.entries_)),
                           last |-> last,
                           media_sequence_number_ |->
                             c.this.media_sequence_number_,
                           discontinuity_sequence_number_ |->
                             c.this.discontinuity_sequence_number_,
                           removed |-> Len(c.removed)])]

RECURSIVE SlideLoop(_, _, _, _, _, _)
\* for (; last != entries_.end(); ++last) { ... } of SlideWindow, from `last`.
SlideLoop(c, last, ext_x_keys, prev_entry_type, timeshift_limit, read) ==
  LET entry == c.this.entries_[last]
      Go(d, keys) ==
        SlideLoop(d, last + 1, keys, entry.type, timeshift_limit, read)
      Segment(segment_info) ==
        IF segment_info.dcheck THEN [c EXCEPT !.aborted = TRUE]
        ELSE IF StopsAt(segment_info, timeshift_limit)
        THEN SlideEnd(c, last, ext_x_keys)
        ELSE Go([RemoveOldSegment(c, Truncated(segment_info.start_time))
                 EXCEPT !.this.media_sequence_number_ = @ + 1],
                ext_x_keys)
  IN IF last > Len(c.this.entries_) THEN SlideEnd(c, last, ext_x_keys)
     ELSE IF entry.type = "kExtKey"
     THEN Go(c, (IF prev_entry_type # "kExtKey" THEN << >> ELSE ext_x_keys)
                  \o << entry >>)
     ELSE IF entry.type = "kExtDiscontinuity"
     THEN Go([c EXCEPT !.this.discontinuity_sequence_number_ = @ + 1],
             ext_x_keys)
     ELSE IF entry.type \in {"kExtSignalExit", "kExtSignalReturn",
                             "kExtSignalSpan"}
     THEN Go(c, ext_x_keys)
     ELSE Segment(SegmentInfoOf(entry, read))

\* void MediaPlaylist::SlideWindow()
SlideWindow(c, read) ==
  IF c.this.hls_params_.time_shift_buffer_depth <= 0
     \/ c.this.hls_params_.playlist_type # "kLive"
  THEN c
  ELSE IF LatestSegmentStartTime(c.this.entries_)
            <= Seconds(c.this.hls_params_.time_shift_buffer_depth)
  THEN c
  ELSE SlideLoop(c, 1, << >>, "kExtInf",
                 LatestSegmentStartTime(c.this.entries_)
                   - Seconds(c.this.hls_params_.time_shift_buffer_depth),
                 read)

\* The index of the last ExtInf among the first n entries, 0 when none.
RECURSIVE LastSegmentInfo(_, _)
LastSegmentInfo(entries, n) ==
  IF n = 0 THEN 0
  ELSE IF entries[n].type = "kExtInf" THEN n
  ELSE LastSegmentInfo(entries, n - 1)

\* void MediaPlaylist::AdjustLastSegmentInfoEntryDuration(next_timestamp)
AdjustLastSegmentInfoEntryDuration(c, next_timestamp) ==
  LET Adjust(i, segment_duration_seconds) ==
        [c EXCEPT !.this.entries_[i].duration = segment_duration_seconds,
                  !.this.longest_segment_duration_ =
                     IF @ < segment_duration_seconds
                     THEN segment_duration_seconds ELSE @]
      Found(i) ==
        IF i = 0 THEN c
        ELSE Adjust(i, InSeconds(next_timestamp, c.this.time_scale_)
                         - c.this.entries_[i].start_time)
  IN IF c.this.time_scale_ = 0 THEN c
     ELSE Found(LastSegmentInfo(c.this.entries_, Len(c.this.entries_)))

\* AddSegmentInfoEntry inserting a span before every segment added in an ad.
InsertsSpan_EverySegment(this) == TRUE

\* if (ad_segments_ > 0) of AddSegmentInfoEntry
InsertsSpan(this) == this.ad_segments_ > 0

\* void MediaPlaylist::AddSegmentInfoEntry(segment_file_name, start_time,
\* duration, start_byte_offset, size)
AddSegmentInfoEntry(c, segment_file_name, start_time, duration, start_byte_offset, size, read) ==
  LET Segment(d) ==
        SlideWindow(
          [EmplaceBack(d,
             SegmentInfoEntry(segment_file_name,
                              InSeconds(start_time, d.this.time_scale_),
                              InSeconds(duration, d.this.time_scale_),
                              d.this.use_byte_range_, start_byte_offset, size,
                              d.this.previous_segment_end_offset_))
           EXCEPT !.this.longest_segment_duration_ =
                     IF @ < InSeconds(duration, d.this.time_scale_)
                     THEN InSeconds(duration, d.this.time_scale_) ELSE @,
                  !.this.previous_segment_end_offset_ =
                     Uint64MinusOne(start_byte_offset + size),
                  !.this.ad_segments_ = @ + 1],
          read)
      Position(d) ==
        [d EXCEPT !.this.ad_position_ =
                    @ + Seconds(duration \div d.this.time_scale_)]
  IN IF c.aborted THEN c
     ELSE IF c.this.time_scale_ = 0
     THEN EmplaceBack(c,
            SegmentInfoEntry(segment_file_name, 0, 0, c.this.use_byte_range_,
                             start_byte_offset, size,
                             c.this.previous_segment_end_offset_))
     ELSE IF c.this.in_ad_state_
     THEN Segment(Position(
            IF InsertsSpan(c.this)
            THEN AddSignalSpan(c, c.this.ad_position_, c.this.ad_duration_)
            ELSE c))
     ELSE Segment(c)

RECURSIVE AddKeyFrameEntries(_, _, _, _, _, _)
\* for (auto iter = key_frames_.begin(); ...) of AddSegment, from the i-th.
AddKeyFrameEntries(c, i, file_name, start_time, duration, read) ==
  IF i > Len(c.this.key_frames_) THEN c
  ELSE AddKeyFrameEntries(
         AddSegmentInfoEntry(
           c, file_name, c.this.key_frames_[i].timestamp,
           (IF i = Len(c.this.key_frames_)
            THEN start_time + duration
            ELSE c.this.key_frames_[i + 1].timestamp)
             - c.this.key_frames_[i].timestamp,
           c.this.key_frames_[i].start_byte_offset,
           c.this.key_frames_[i].size, read),
         i + 1, file_name, start_time, duration, read)

\* AddSegment giving every segment one name.
AddSegment_SameName(c, file_name, start_time, duration, start_byte_offset, size, read) ==
  AddSegmentInfoEntry(c, << "segment" >>, start_time, duration,
                      start_byte_offset, size, read)

\* void MediaPlaylist::AddSegment(file_name, start_time, duration,
\* start_byte_offset, size)
AddSegment(c, file_name, start_time, duration, start_byte_offset, size, read) ==
  LET Clear(d) ==
        IF d.aborted THEN d ELSE [d EXCEPT !.this.key_frames_ = << >>]
  IN IF c.this.stream_type_ = "kVideoIFramesOnly"
     THEN IF c.this.key_frames_ = << >> THEN c
          ELSE Clear(AddKeyFrameEntries(
                 AdjustLastSegmentInfoEntryDuration(
                   c, c.this.key_frames_[1].timestamp),
                 1, file_name, start_time, duration, read))
     ELSE AddSegmentInfoEntry(c, file_name, start_time, duration,
                              start_byte_offset, size, read)

\* ------------------------------------------------------ the playlist's calls
\* The playlists constructed: the HlsParams and the MediaInfo given.  The last
\* MediaInfo has no time scale.
VideoInfo(has_segment_template_url) ==
  [has_reference_time_scale |-> FALSE, reference_time_scale |-> 0,
   has_video_info |-> TRUE, has_audio_info |-> FALSE,
   time_scale |-> PlaylistTimeScale,
   has_segment_template_url |-> has_segment_template_url,
   has_init_segment_url |-> TRUE]

AudioInfo ==
  [VideoInfo(FALSE) EXCEPT !.has_video_info = FALSE, !.has_audio_info = TRUE]

TextInfo ==
  [VideoInfo(TRUE) EXCEPT !.has_video_info = FALSE, !.time_scale = 0]

HlsParams(playlist_type, time_shift_buffer_depth, preserved) ==
  [playlist_type |-> playlist_type,
   time_shift_buffer_depth |-> time_shift_buffer_depth,
   preserved_segments_outside_live_window |-> preserved]

PlaylistConfigs ==
  { [hls_params |-> HlsParams("kLive", 5, 1), media_info |-> VideoInfo(TRUE)],
    [hls_params |-> HlsParams("kLive", 5, 0), media_info |-> VideoInfo(FALSE)],
    [hls_params |-> HlsParams("kLive", 0, 1), media_info |-> AudioInfo],
    [hls_params |-> HlsParams("kVod", 5, 1), media_info |-> VideoInfo(FALSE)],
    [hls_params |-> HlsParams("kEvent", 5, 1), media_info |-> AudioInfo],
    [hls_params |-> HlsParams("kLive", 5, 1), media_info |-> TextInfo] }

\* The live playlist of the slide scenario: a time shift buffer of 30 s.
LiveSlideConfigs ==
  { [hls_params |-> HlsParams("kLive", 30, preserved),
     media_info |-> VideoInfo(TRUE)] : preserved \in {0, 1} }

\* The durations of the segments given, in ticks: 10 s and 2.5 s.
SegmentDurations == { 10 * PlaylistTimeScale, (5 * PlaylistTimeScale) \div 2 }

RECURSIVE CountOf(_, _)
\* The number of entries of the given type.
CountOf(entries, type) ==
  IF entries = << >> THEN 0
  ELSE (IF Head(entries).type = type THEN 1 ELSE 0)
         + CountOf(Tail(entries), type)

RECURSIVE ErasedOf(_, _)
\* The number of entries of the given type that the slides erased.
ErasedOf(slides, type) ==
  IF slides = << >> THEN 0
  ELSE CountOf(SubSeq(Head(slides).before, 1, Head(slides).last - 1), type)
         + ErasedOf(Tail(slides), type)

\* The history after a call that did c; clock and offset are where the next
\* segment begins when it follows the last one given.
History(op, c, clock, offset) ==
  [evicted_ext_inf |->
     pl_hist.evicted_ext_inf + ErasedOf(c.slides, "kExtInf"),
   evicted_discontinuity |->
     pl_hist.evicted_discontinuity + ErasedOf(c.slides, "kExtDiscontinuity"),
   segments |-> pl_hist.segments + CountOf(c.appended, "kExtInf"),
   last_segment |->
     IF CountOf(c.appended, "kExtInf") = 0 THEN pl_hist.last_segment
     ELSE << c.appended[LastSegmentInfo(c.appended, Len(c.appended))] >>,
   encryption_calls |->
     pl_hist.encryption_calls + (IF op = "AddEncryptionInfo" THEN 1 ELSE 0),
   since_exit |->
     IF op = "AddSignalExit" THEN 0
     ELSE IF op = "AddSignalReturn" THEN -1
     ELSE IF pl_hist.since_exit < 0 THEN -1
     ELSE pl_hist.since_exit + CountOf(c.appended, "kExtInf"),
   writes |-> IF op = "WriteToFile" THEN pl_hist.writes + 1 ELSE 0,
   deleted |-> pl_hist.deleted + Len(c.deleted),
   clock |-> clock, offset |-> offset]

PlaylistReturn(op, arg, c, clock, offset) ==
  /\ playlist' = c.this
  /\ pl_call' = [n |-> pl_call.n + 1, op |-> op, arg |-> arg,
                 returned |-> c.returned, appended |-> c.appended,
                 slides |-> c.slides, removed |-> c.removed,
                 deleted |-> c.deleted, aborted |-> c.aborted,
                 content |-> c.content]
  /\ pl_hist' = History(op, c, clock, offset)
  /\ UNCHANGED << handler_vars, parser_vars, notifier_vars >>

\* The playlist is there to be called: it has its MediaInfo (the notifier
\* keeps no playlist whose SetMediaInfo failed) and the process goes on.
PlaylistOpen ==
  /\ playlist.constructed
  /\ pl_call.returned
  /\ ~pl_call.aborted

\* The playlist is called at most MaxPlaylistCalls times more.
PlaylistRunning == PlaylistOpen /\ pl_call.n <= MaxPlaylistCalls

\* new MediaPlaylist(hls_params, ...), then SetMediaInfo(media_info).
SetMediaInfoCall(config) ==
  /\ ~playlist.constructed
  /\ PlaylistReturn("SetMediaInfo", config,
                    SetMediaInfo(Called(MediaPlaylist(config.hls_params)),
                                 config.media_info),
                    0, 0)

\* AddSegment of a segment that begins `gap` ticks after the last one ended
\* and `hole` bytes after its last byte.
AddSegmentStep(gap, duration, hole, size, read) ==
  /\ PlaylistOpen
  /\ \A i \in 1..Len(playlist.key_frames_) :
       playlist.key_frames_[i].timestamp < pl_hist.clock + gap + duration
  /\ PlaylistReturn("AddSegment",
                    [file_name |-> pl_call.n + 1,
                     start_time |-> pl_hist.clock + gap,
                     duration |-> duration,
                     start_byte_offset |-> pl_hist.offset + hole,
                     size |-> size],
                    AddSegment(Called(playlist), pl_call.n + 1,
                               pl_hist.clock + gap, duration,
                               pl_hist.offset + hole, size, read),
                    pl_hist.clock + gap + duration,
                    pl_hist.offset + hole + size)

AddSegmentCall(gap, duration, hole, size, read) ==
  PlaylistRunning /\ AddSegmentStep(gap, duration, hole, size, read)

\* AddKeyFrame of a key frame of the segment to come: its first one at the
\* segment's start, a second one a second later.
AddKeyFrameCall ==
  /\ PlaylistRunning
  /\ Len(playlist.key_frames_) < 2
  /\ PlaylistReturn("AddKeyFrame",
                    [timestamp |-> pl_hist.clock
                                     + Len(playlist.key_frames_) * PlaylistTimeScale],
                    AddKeyFrame(Called(playlist),
                                pl_hist.clock
                                  + Len(playlist.key_frames_) * PlaylistTimeScale,
                                pl_hist.offset + Len(playlist.key_frames_), 1),
                    pl_hist.clock, pl_hist.offset)

AddEncryptionInfoStep ==
  /\ PlaylistOpen
  /\ PlaylistReturn("AddEncryptionInfo", [key_id |-> pl_call.n + 1],
                    AddEncryptionInfo(Called(playlist), pl_call.n + 1),
                    pl_hist.clock, pl_hist.offset)

AddEncryptionInfoCall == PlaylistRunning /\ AddEncryptionInfoStep

AddPlacementOpportunityCall ==
  /\ PlaylistRunning
  /\ PlaylistReturn("AddPlacementOpportunity", << >>,
                    AddPlacementOpportunity(Called(playlist)),
                    pl_hist.clock, pl_hist.offset)

AddSignalExitCall(duration) ==
  /\ PlaylistRunning
  /\ PlaylistReturn("AddSignalExit", [duration |-> duration],
                    AddSignalExit(Called(playlist), duration),
                    pl_hist.clock, pl_hist.offset)

AddSignalReturnCall(duration) ==
  /\ PlaylistRunning
  /\ PlaylistReturn("AddSignalReturn", [duration |-> duration],
                    AddSignalReturn(Called(playlist), duration),
                    pl_hist.clock, pl_hist.offset)

WriteToFileStep ==
  /\ PlaylistOpen
  /\ PlaylistReturn("WriteToFile", << >>, WriteToFile(Called(playlist)),
                    pl_hist.clock, pl_hist.offset)

WriteToFileCall == PlaylistRunning /\ WriteToFileStep

\* The calls of a playlist of any kind, its segments following one another in
\* time and in the file.
NextPlaylist ==
  \/ \E config \in PlaylistConfigs : SetMediaInfoCall(config)
  \/ \E duration \in SegmentDurations, read \in OutOfBoundsReads :
       AddSegmentCall(0, duration, 0, 1, read)
  \/ AddKeyFrameCall
  \/ AddEncryptionInfoCall
  \/ AddPlacementOpportunityCall
  \/ AddSignalExitCall(Seconds(30))
  \/ AddSignalReturnCall(Seconds(30))
  \/ WriteToFileCall

InitPlaylist == Init /\ info[1].stream_type = "video"

SpecPlaylist == InitPlaylist /\ [][NextPlaylist]_vars

\* ------------------------------------------------------ byte ranges
\* The playlists whose segments are byte ranges of one file, and the segments
\* given: each begins at the byte after the last one or leaves a hole of one
\* or two bytes, and is one or two bytes long.
ByteRangeConfigs ==
  { [hls_params |-> HlsParams("kLive", 5, 0), media_info |-> VideoInfo(FALSE)],
    [hls_params |-> HlsParams("kVod", 5, 1), media_info |-> AudioInfo] }

Holes == {0, 1, 2}

Sizes == {1, 2}

ByteRangeSetMediaInfoCall ==
  \E config \in ByteRangeConfigs : SetMediaInfoCall(config)

ByteRangeAddSegmentCall ==
  \E hole \in Holes, size \in Sizes, read \in OutOfBoundsReads :
    AddSegmentCall(0, 10 * PlaylistTimeScale, hole, size, read)

NextByteRange ==
  \/ ByteRangeSetMediaInfoCall
  \/ ByteRangeAddSegmentCall
  \/ AddKeyFrameCall
  \/ WriteToFileCall

SpecByteRange == InitPlaylist /\ [][NextByteRange]_vars

\* ------------------------------------------------------ the slide scenario
\* The live playlist with a time shift buffer of 30 s is given contiguous
\* segments of 10 s from 0, keys and writes between them, MaxSlideCalls
\* calls in all.
LiveSlideRunning == pl_call.n < MaxSlideCalls

LiveSetMediaInfoCall == \E config \in LiveSlideConfigs : SetMediaInfoCall(config)

LiveAddSegmentCall ==
  /\ LiveSlideRunning
  /\ \E read \in OutOfBoundsReads :
       AddSegmentStep(0, 10 * PlaylistTimeScale, 0, 1, read)

LiveAddEncryptionInfoCall == LiveSlideRunning /\ AddEncryptionInfoStep

LiveWriteToFileCall == LiveSlideRunning /\ WriteToFileStep

NextLiveSlide ==
  \/ LiveSetMediaInfoCall
  \/ LiveAddSegmentCall
  \/ LiveAddEncryptionInfoCall
  \/ LiveWriteToFileCall

SpecLiveSlide == InitPlaylist /\ [][NextLiveSlide]_vars

\* ========================================================================
\* Part 4: the HLS notifier (hls/base/hls_notifier.h), as its implementation
\* SimpleHlsNotifier is driven in hls/base/simple_hls_notifier_unittest.cc,
\* over media playlists of Part 3.  A path or a URL is a sequence of pieces:
\* names, and "/" for a separator.

\* kTestPrefix and kEmptyPrefix.
kTestPrefix == << "http://testprefix.com", "/" >>

kEmptyPrefix == << >>

\* The directory of master_playlist_output: kAnyOutputDir and
\* kAbsoluteOutputDir.
kAnyOutputDir == << "anything", "/" >>

kAbsoluteOutputDir == << "/", "tmp", "/", "something", "/" >>

\* kTestTimeShiftBufferDepth, in seconds.
kTestTimeShiftBufferDepth == 1800

\* The HlsParams the notifiers are constructed with.
NotifierConfigs ==
  { [playlist_type |-> "kVod", base_url |-> kTestPrefix,
     output_dir |-> kAnyOutputDir],
    [playlist_type |-> "kLive", base_url |-> kEmptyPrefix,
     output_dir |-> kAnyOutputDir],
    [playlist_type |-> "kLive", base_url |-> kTestPrefix,
     output_dir |-> kAnyOutputDir],
    [playlist_type |-> "kEvent", base_url |-> kTestPrefix,
     output_dir |-> kAbsoluteOutputDir] }

\* The playlist names given to NotifyNewStream.
PlaylistNames ==
  { << "playlist.m3u8" >>, << "video", "/", "playlist.m3u8" >> }

\* The streams given to NotifyNewStream, each to a playlist of its own; a
\* text stream has no time scale.
NewStreams ==
  { [media_info |-> AudioInfo, playlist_name |-> name] : name \in PlaylistNames }
    \cup { [media_info |-> TextInfo, playlist_name |-> << "playlist.m3u8" >>] }

\* The stream ids given to NotifyNewSegment: one for each playlist name, the
\* stream registered or not.
StreamIds == 1..Cardinality(PlaylistNames)

\* The segment names given to NotifyNewSegment of a notifier that writes to
\* the directory: one under it and one elsewhere.
SegmentNames(output_dir) ==
  IF output_dir = kAnyOutputDir
  THEN { << "anything", "/", "video", "/", "path", "/", "to", "/",
            "media1.m4s" >>,
         << "segmentname" >> }
  ELSE { << "/", "tmp", "/", "something", "/", "media1.ts" >>,
         << "/", "var", "/", "somewhereelse", "/", "media1.ts" >> }

\* The path begins with the pieces of the directory and goes on.
IsParent(parent_path, path) ==
  /\ Len(parent_path) < Len(path)
  /\ SubSeq(path, 1, Len(parent_path)) = parent_path

\* The path from the directory on, or the path itself when it is not under
\* the directory.
MakePathRelative(media_path, parent_path) ==
  IF IsParent(parent_path, media_path)
  THEN SubSeq(media_path, Len(parent_path) + 1, Len(media_path))
  ELSE media_path

RECURSIVE DirName(_)
\* The directory of a file name, with its last separator.
DirName(file_name) ==
  IF file_name = << >> \/ file_name[Len(file_name)] = "/" THEN file_name
  ELSE DirName(SubSeq(file_name, 1, Len(file_name) - 1))

\* The URL of a segment in a media playlist.
GenerateSegmentUrl(segment_name, base_url, output_dir, playlist_file_name) ==
  IF base_url # << >>
  THEN base_url \o MakePathRelative(segment_name, output_dir)
  ELSE MakePathRelative(segment_name,
                        output_dir \o DirName(playlist_file_name))

\* SimpleHlsNotifier::SimpleHlsNotifier(hls_params) and Init().
SimpleHlsNotifier(hls_params) ==
  [constructed |-> TRUE, hls_params |-> hls_params, target_duration_ |-> 0,
   media_playlists_ |-> << >>,
   op |-> "SimpleHlsNotifier", stream_id |-> 0, arg |-> << >>,
   result |-> TRUE, calls |-> << >>]

\* A call the notifier made on the media playlist of a stream (on the master
\* playlist for stream 0).
PlaylistCalled(op, stream_id, arg) ==
  [op |-> op, stream_id |-> stream_id, arg |-> arg]

\* The notifier after a call: the name it was given, what it returned and
\* the calls it made.
NotifierReturned(this, op, stream_id, arg, result, calls) ==
  [this EXCEPT !.op = op, !.stream_id = stream_id, !.arg = arg,
               !.result = result, !.calls = calls]

\* bool NotifyNewStream(media_info, playlist_name, stream_name, group_id,
\* stream_id): the playlist is kept when SetMediaInfo succeeds.
NotifyNewStream(this, media_info, playlist_name) ==
  LET created ==
        SetMediaInfo(
          Called(MediaPlaylist(
            HlsParams(this.hls_params.playlist_type,
                      kTestTimeShiftBufferDepth, 0))),
          media_info)
      stream_id == Len(this.media_playlists_) + 1
  IN IF ~created.returned
     THEN NotifierReturned(this, "NotifyNewStream", 0, playlist_name, FALSE, << >>)
     ELSE NotifierReturned(
            [this EXCEPT !.media_playlists_ =
               Append(@, [file_name |-> playlist_name,
                          playlist |-> created.this])],
            "NotifyNewStream", stream_id, playlist_name, TRUE, << >>)

\* WriteToFile on the playlist of stream i: the call, with the target
\* duration the file advertises.
WriteMediaPlaylist(this, i) ==
  LET written == WriteToFile(Called(this.media_playlists_[i].playlist))
  IN [this |-> [this EXCEPT !.media_playlists_[i].playlist = written.this],
      call |-> PlaylistCalled("WriteToFile", i, << written.content[3][2] >>)]

RECURSIVE UpdateAllPlaylists(_, _, _)
\* for (MediaPlaylist* playlist : media_playlists_), from the i-th on:
\* SetTargetDuration and WriteToFile.
UpdateAllPlaylists(this, i, calls) ==
  IF i > Len(this.media_playlists_) THEN [this |-> this, calls |-> calls]
  ELSE LET set == SetTargetDuration(
                    Called(this.media_playlists_[i].playlist),
                    this.target_duration_)
           written == WriteMediaPlaylist(
                        [this EXCEPT !.media_playlists_[i].playlist = set.this],
                        i)
       IN UpdateAllPlaylists(
            written.this, i + 1,
            calls \o << PlaylistCalled("SetTargetDuration", i,
                                       << this.target_duration_ >>),
                        written.call >>)

\* bool NotifyNewSegment(stream_id, segment_name, start_time, duration,
\* start_byte_offset, size)
NotifyNewSegment(this, stream_id, segment_name, start_time, duration, size, read) ==
  LET entry == this.media_playlists_[stream_id]
      segment_url ==
        GenerateSegmentUrl(segment_name, this.hls_params.base_url,
                           this.hls_params.output_dir, entry.file_name)
      appended == AddSegment(Called(entry.playlist), segment_url, start_time,
                          duration, 0, size, read)
      longest_segment_duration == Ceil(appended.this.longest_segment_duration_)
      target_duration_updated ==
        longest_segment_duration > this.target_duration_
      with_segment ==
        [this EXCEPT !.media_playlists_[stream_id].playlist = appended.this,
                     !.target_duration_ =
                        IF target_duration_updated
                        THEN longest_segment_duration ELSE @]
      add_call == PlaylistCalled("AddSegment", stream_id, segment_url)
      master_call == PlaylistCalled("WriteMasterPlaylist", 0, << >>)
      all == UpdateAllPlaylists(with_segment, 1, << add_call >>)
      one == WriteMediaPlaylist(with_segment, stream_id)
  IN IF stream_id \notin 1..Len(this.media_playlists_)
     THEN NotifierReturned(this, "NotifyNewSegment", stream_id, segment_name,
                           FALSE, << >>)
     ELSE IF this.hls_params.playlist_type \notin {"kLive", "kEvent"}
     THEN NotifierReturned(with_segment, "NotifyNewSegment", stream_id,
                           segment_name, TRUE, << add_call >>)
     ELSE IF target_duration_updated
     THEN NotifierReturned(all.this, "NotifyNewSegment", stream_id,
                           segment_name, TRUE, all.calls \o << master_call >>)
     ELSE NotifierReturned(one.this, "NotifyNewSegment", stream_id,
                           segment_name, TRUE,
                           << add_call, one.call, master_call >>)

\* ------------------------------------------------------- the notifier's calls
NotifierReturn(this) ==
  /\ notifier' = this
  /\ UNCHANGED << handler_vars, parser_vars, playlist_vars >>

NotifierConstructCall(hls_params) ==
  /\ ~notifier.constructed
  /\ NotifierReturn(SimpleHlsNotifier(hls_params))

NotifyNewStreamCall(stream) ==
  /\ notifier.constructed
  /\ \A i \in 1..Len(notifier.media_playlists_) :
        notifier.media_playlists_[i].file_name # stream.playlist_name
  /\ NotifierReturn(
       NotifyNewStream(notifier, stream.media_info, stream.playlist_name))

\* Where the next segment of the playlist begins, in ticks: where its last
\* segment ended.
NextStartTime(this) ==
  LET last == LastSegmentInfo(this.entries_, Len(this.entries_))
  IN IF last = 0 THEN 0
     ELSE this.entries_[last].start_time + this.entries_[last].duration

\* The number of segments the playlists hold in all.
RECURSIVE SegmentsNotified(_)
SegmentsNotified(media_playlists) ==
  IF media_playlists = << >> THEN 0
  ELSE CountOf(Head(media_playlists).playlist.entries_, "kExtInf")
         + SegmentsNotified(Tail(media_playlists))

NotifyNewSegmentCall(stream_id, segment_name, duration, read) ==
  /\ notifier.constructed
  /\ SegmentsNotified(notifier.media_playlists_) < MaxNotifierSegments
  /\ NotifierReturn(
       NotifyNewSegment(
         notifier, stream_id, segment_name,
         IF stream_id \in 1..Len(notifier.media_playlists_)
         THEN NextStartTime(notifier.media_playlists_[stream_id].playlist)
         ELSE 0,
         duration, 1, read))

NextNotifier ==
  \/ \E hls_params \in NotifierConfigs : NotifierConstructCall(hls_params)
  \/ \E stream \in NewStreams : NotifyNewStreamCall(stream)
  \/ /\ notifier.constructed
     /\ \E stream_id \in StreamIds, duration \in SegmentDurations,
           read \in OutOfBoundsReads :
          \E segment_name \in SegmentNames(notifier.hls_params.output_dir) :
             NotifyNewSegmentCall(stream_id, segment_name, duration, read)

SpecNotifier == InitPlaylist /\ [][NextNotifier]_vars

\* ------------------------------------------------- what the claims speak of
RECURSIVE EventsOf(_)
\* The cue events of a dispatched sequence, in order.
EventsOf(items) ==
  IF items = << >> THEN << >>
  ELSE IF Head(items).kind = "cue"
       THEN << Head(items).event >> \o EventsOf(Tail(items))
       ELSE EventsOf(Tail(items))

RECURSIVE SamplesOf(_)
\* The samples of a dispatched sequence, in order.
SamplesOf(items) ==
  IF items = << >> THEN << >>
  ELSE IF Head(items).kind = "sample"
       THEN << Head(items).sample >> \o SamplesOf(Tail(items))
       ELSE SamplesOf(Tail(items))

RECURSIVE IsSubSeq(_, _)
\* a is b with some elements left out.
IsSubSeq(a, b) ==
  IF a = << >> THEN TRUE
  ELSE IF b = << >> THEN FALSE
  ELSE IF Head(a) = Head(b) THEN IsSubSeq(Tail(a), Tail(b))
  ELSE IsSubSeq(a, Tail(b))

IsPrefix(a, b) == Len(a) <= Len(b) /\ SubSeq(b, 1, Len(a)) = a

\* The ordering time of a sample, in seconds, as the handler computes it.
OrderingTime(s, sample) == TimeInSeconds(info[s], sample)

\* The exact ordering time of a sample, in seconds.
ExactTime(s, sample) ==
  (GetScaledTime(info[s], sample) * TicksPerSecond) \div info[s].time_scale

\* The samples of stream s were given in non-decreasing time order.
InTimeOrder(s, samples) ==
  \A i, j \in 1..Len(samples) :
     i < j => ExactTime(s, samples[i]) <= ExactTime(s, samples[j])

\* The step is a handler call.
IsCall == call'.n = call.n + 1

\* The positions of dispatched[s] that the step added.
NewPositions(s) == (Len(dispatched[s]) + 1)..Len(dispatched'[s])

\* ------------------------------------------------------------------ claims

\* C1: on every stream, every sample dispatched before a cue of time t has an
\* ordering time strictly less than t.
C1_SamplesBeforeCueAreEarlier ==
  \A s \in Streams : \A i, j \in 1..Len(dispatched[s]) :
     (i < j /\ dispatched[s][i].kind = "sample" /\ dispatched[s][j].kind = "cue")
       => OrderingTime(s, dispatched[s][i].sample)
            < dispatched[s][j].event.time_in_seconds

\* C2: on a stream whose samples came in non-decreasing time order, when a cue
\* of time t is dispatched every sample of the stream accepted so far with an
\* ordering time below t has been dispatched before it.
C2_NoEarlierSampleBehindCue ==
  [][\A s \in Streams :
       InTimeOrder(s, accepted'[s]) =>
         \A j \in NewPositions(s) :
            dispatched'[s][j].kind = "cue" =>
              \A k \in 1..Len(accepted'[s]) :
                 OrderingTime(s, accepted'[s][k])
                     < dispatched'[s][j].event.time_in_seconds
                   => \E i \in 1..(j - 1) :
                        dispatched'[s][i] = SampleItem(accepted'[s][k])]_vars

\* A cue went out between an earlier and a later sample of an ordered stream.
C2_Witness ==
  \E s \in Streams : \E i, j, k \in 1..Len(dispatched[s]) :
     /\ i < j /\ j < k /\ InTimeOrder(s, accepted[s])
     /\ dispatched[s][i].kind = "sample" /\ dispatched[s][j].kind = "cue"
     /\ dispatched[s][k].kind = "sample"
     /\ OrderingTime(s, dispatched[s][i].sample)
          < dispatched[s][j].event.time_in_seconds
     /\ OrderingTime(s, dispatched[s][k].sample)
          >= dispatched[s][j].event.time_in_seconds

\* C3 as stated: after the final flush every stream has been sent every cue
\* event the handler got from the queue, once each and in the same order.
C3_EveryStreamGetsEveryCue ==
  flushed => \A s \in Streams : EventsOf(dispatched[s]) = obtained

\* C3 as amended: every cue event got from the queue is put once on every
\* stream's cue FIFO and dispatched at most once per stream, in the order got;
\* until the final flush it is either dispatched or pending on each stream,
\* and the final flush leaves out only cues whose time is not below the
\* stream's max_text_sample_end_time.
C3_CuesOnceUnlessDroppedAtFlush ==
  \A s \in Streams :
     /\ IsSubSeq(EventsOf(dispatched[s]), obtained)
     /\ ~flushed => EventsOf(dispatched[s]) \o stream_states[s].cues = obtained
     /\ flushed =>
          /\ stream_states[s].cues = << >>
          /\ \A i \in 1..Len(obtained) :
               \/ \E j \in 1..Len(dispatched[s]) :
                    dispatched[s][j] = CueItem(obtained[i])
               \/ obtained[i].time_in_seconds >=
                    stream_states[s].max_text_sample_end_time_seconds

\* After the final flush one stream was sent a cue that another was not.
C3_Witness ==
  /\ flushed /\ obtained # << >>
  /\ \E s, t \in Streams :
       /\ EventsOf(dispatched[s]) = obtained
       /\ EventsOf(dispatched[t]) = << >>

\* C4: the samples dispatched on a stream are the samples given on it, in the
\* order given, none twice; while every call succeeds the rest is buffered.
C4_SampleOrderKept ==
  \A s \in Streams :
     /\ IsPrefix(SamplesOf(dispatched[s]), accepted[s])
     /\ call.status = "OK" =>
          SamplesOf(dispatched[s]) \o stream_states[s].samples = accepted[s]

\* Two samples that were buffered together went out after a cue.
C4_Witness ==
  \E s \in Streams : \E j \in 1..Len(dispatched[s]) :
     /\ dispatched[s][j].kind = "cue"
     /\ j + 2 <= Len(dispatched[s])
     /\ dispatched[s][j + 1].kind = "sample"
     /\ dispatched[s][j + 2].kind = "sample"
     /\ call.op = "OnSample" /\ call.stream_index # s

\* C5: the video stream buffers nothing, every video sample goes out in the
\* call that gives it, and a cue on the video stream is always immediately
\* followed by a key frame.
C5_VideoCueAtKeyFrame ==
  \A s \in Streams :
     info[s].stream_type = "video" =>
       /\ stream_states[s].samples = << >>
       /\ call.status = "OK" => SamplesOf(dispatched[s]) = accepted[s]
       /\ \A j \in 1..Len(dispatched[s]) :
            dispatched[s][j].kind = "cue" =>
              /\ j < Len(dispatched[s])
              /\ dispatched[s][j + 1].kind = "sample"
              /\ dispatched[s][j + 1].sample.is_key_frame

\* A cue went out on the video stream, after a frame that is not a key frame.
C5_Witness ==
  \E s \in Streams : \E j \in 2..Len(dispatched[s]) :
     /\ info[s].stream_type = "video"
     /\ dispatched[s][j].kind = "cue"
     /\ dispatched[s][j - 1].kind = "sample"
     /\ ~dispatched[s][j - 1].sample.is_key_frame

\* C6: a video key frame at or after the hint for which PromoteAt gives no
\* event makes the call fail, and the call dispatches nothing.
C6_PromotionFailureFailsCall ==
  [][(/\ IsCall /\ call'.op = "OnSample"
      /\ info[call'.stream_index].stream_type = "video"
      /\ call'.arg.is_key_frame
      /\ TimeInSeconds(info[call'.stream_index], call'.arg) >= hint_
      /\ PromoteAt(sync_points,
                   TimeInSeconds(info[call'.stream_index], call'.arg)).event
           = NoEvent)
       => (call'.status = "INVALID_ARGUMENT" /\ dispatched' = dispatched)]_vars

\* A key frame failed to promote while an event was pending.
C6_Witness ==
  /\ call.op = "OnSample" /\ call.status = "INVALID_ARGUMENT"
  /\ info[call.stream_index].stream_type = "video"
  /\ call.arg.is_key_frame
  /\ sync_points.events # << >>

\* C7: on every stream the cue-state follows the cues dispatched on it: InAd
\* after a START cue, InProgram after an END cue.
C7_StateFollowsDispatchedCues ==
  \A s \in Streams :
     LET events == EventsOf(dispatched[s])
     IN events # << >> =>
          stream_states[s].state =
            (IF SCTE35_START_EVENT(events[Len(events)].seg_type)
             THEN "InAd" ELSE "InProgram")

\* The signal of a call is of the wrong polarity for the receiving stream.
WrongPolarity(signal) ==
  \/ SCTE35_START_EVENT(signal.seg_type)
       /\ stream_states[signal.stream_index].state = "InAd"
  \/ SCTE35_END_EVENT(signal.seg_type)
       /\ stream_states[signal.stream_index].state = "InProgram"
  \/ ~SCTE35_START_EVENT(signal.seg_type) /\ ~SCTE35_END_EVENT(signal.seg_type)

\* C8: OnSignal with a signal of the wrong polarity returns OK and changes
\* neither the queue, nor the hint, nor any stream's state or FIFOs.
C8_WrongPolarityIgnored ==
  [][(IsCall /\ call'.op = "OnSignal" /\ WrongPolarity(call'.arg))
       => /\ call'.status = "OK"
          /\ UNCHANGED << sync_points, hint_, stream_states, dispatched >>]_vars

\* A START signal was given to a stream that is in an ad.
C8_Witness ==
  /\ call.op = "OnSignal" /\ SCTE35_START_EVENT(call.arg.seg_type)
  /\ stream_states[call.stream_index].state = "InAd"

\* C9: after a call that returns OK no stream buffers more than kMaxBufferSize
\* samples, and a sample given to a stream that already buffers kMaxBufferSize
\* makes the call fail without dispatching anything.
C9_BufferCap ==
  [][IsCall =>
       /\ call'.status = "OK" =>
            \A s \in Streams : Len(stream_states'[s].samples) <= kMaxBufferSize
       /\ (/\ call'.op = "OnSample"
           /\ info[call'.stream_index].stream_type # "video"
           /\ Len(stream_states[call'.stream_index].samples) >= kMaxBufferSize)
            => (call'.status = "INVALID_ARGUMENT" /\ dispatched' = dispatched)]_vars

\* A sample overflowed the buffer of its stream.
C9_Witness ==
  /\ call.op = "OnSample" /\ call.status = "INVALID_ARGUMENT"
  /\ Len(stream_states[call.stream_index].samples) = kMaxBufferSize + 1

\* C10: OnFlushRequest while another stream has not asked for its flush only
\* marks the stream, and downstream is flushed only by the OnFlushRequest that
\* marks the last stream.
C10_FlushWaitsForAllStreams ==
  [][IsCall =>
       LET s == call'.stream_index
           others == { t \in Streams : t # s /\ ~stream_states[t].to_be_flushed }
       IN /\ (call'.op = "OnFlushRequest" /\ others # {})
               => /\ call'.status = "OK"
                  /\ stream_states' =
                       [stream_states EXCEPT ![s].to_be_flushed = TRUE]
                  /\ UNCHANGED << dispatched, sync_points, hint_, obtained,
                                  flushed >>
          /\ (flushed' /\ ~flushed)
               => (call'.op = "OnFlushRequest" /\ others = {})]_vars

\* A stream asked for its flush while samples were buffered and an event was
\* pending, and nothing was flushed.
C10_Witness ==
  /\ call.op = "OnFlushRequest" /\ call.status = "OK" /\ ~flushed
  /\ sync_points.events # << >>
  /\ \E t \in Streams : stream_states[t].samples # << >>

\* The step is the final flush: the call after which downstream is flushed.
IsFinalFlush == IsCall /\ flushed' /\ ~flushed

\* The last position of dispatched'[s] that holds a sample the step sent, or
\* the last position before the step when it sent no sample on s.
LastNewSample(s) ==
  LET at == { j \in NewPositions(s) : dispatched'[s][j].kind = "sample" }
  IN IF at = {} THEN Len(dispatched[s])
     ELSE CHOOSE j \in at : \A k \in at : k <= j

\* The cues stream s has to handle in the step: those pending on it before,
\* then those the step gets from the queue.
CuesToHandle(s) ==
  stream_states[s].cues \o SubSeq(obtained', Len(obtained) + 1, Len(obtained'))

\* The cues still pending on stream s once the step has drained its samples.
LeftCues(s) ==
  LET merged == EventsOf(SubSeq(dispatched'[s], Len(dispatched[s]) + 1,
                                LastNewSample(s)))
  IN SubSeq(CuesToHandle(s), Len(merged) + 1, Len(CuesToHandle(s)))

\* C11: at the final flush the cues still pending on a stream once its
\* samples are drained are dispatched exactly when their time is strictly
\* below the stream's max_text_sample_end_time, which is 0 on a stream that
\* was given no text sample; the others are dropped and every cue FIFO ends
\* empty.
C11_LeftCuesAtFinalFlush ==
  [][IsFinalFlush =>
       \A s \in Streams :
          LET end_time == stream_states[s].max_text_sample_end_time_seconds
              InTime(event) == event.time_in_seconds < end_time
          IN /\ EventsOf(SubSeq(dispatched'[s], LastNewSample(s) + 1,
                                Len(dispatched'[s])))
                  = SelectSeq(LeftCues(s), InTime)
             /\ stream_states'[s].cues = << >>
             /\ stream_states'[s].samples = << >>
             /\ (\A k \in 1..Len(accepted[s]) : ~accepted[s][k].text)
                  => end_time = 0]_vars

\* The final flush sent a left cue after the last sample of a stream that had
\* text, and dropped a cue on a stream whose end time the cue is not below.
C11_Witness ==
  /\ flushed
  /\ \E s \in Streams :
       /\ dispatched[s] # << >>
       /\ dispatched[s][Len(dispatched[s])].kind = "cue"
       /\ dispatched[s][Len(dispatched[s])].event.time_in_seconds
            < stream_states[s].max_text_sample_end_time_seconds
       /\ Len(dispatched[s]) > 1
  /\ \E t \in Streams : \E i \in 1..Len(obtained) :
       /\ \A j \in 1..Len(dispatched[t]) : dispatched[t][j] # CueItem(obtained[i])
       /\ obtained[i].time_in_seconds
            >= stream_states[t].max_text_sample_end_time_seconds

C13_HintNeverDecreases == [][hint_' >= hint_]_vars

\* ------------------------------------------------ claims about the parser
\* The last call of the framer called EsParserScte35::Parse.
EsParsed == ts_call.op = "Parse" /\ ts_call.es.parsed

\* The section the parser holds, read or half read by the last Parse.
Held == sis_[1]

\* The splice_command_type byte of the buffer of the last Parse.
CommandTypeByte == ts_call.es.buf[14]

\* C14: Parse of a section whose splice_command_type is neither 5 nor 6
\* returns false; the callback is run once, with the section parsed, by a
\* Parse that returns true and is not run by one that returns false.
C14_CallbackOncePerSuccess ==
  EsParsed =>
    LET es == ts_call.es
    IN /\ (Len(es.buf) >= 14 /\ CommandTypeByte \notin {5, 6})
            => (~es.ok /\ es.callbacks = << >>)
       /\ es.ok => es.callbacks = << Held >>
       /\ ~es.ok => es.callbacks = << >>
       /\ ts_call.result = es.ok

\* A section with an unsupported command, whole in the buffer, was refused
\* once its header was read.
C14_Witness ==
  /\ EsParsed /\ ~ts_call.es.ok
  /\ ts_call.es.header_end = 112
  /\ Len(ts_call.es.buf) = Held.section_length + 3
  /\ CommandTypeByte \notin {5, 6}

\* C15: Parse returns true only having read (section_length + 3) * 8 bits.
C15_AcceptedSectionReadWhole ==
  (EsParsed /\ ts_call.es.ok) =>
    ts_call.es.pos = (Held.section_length + 3) * 8

\* C16: Parse returns true only if the descriptor loop read exactly
\* descriptor_loop_length bytes and the command exactly splice_command_length
\* bytes.
C16_AcceptedLengthsExact ==
  (EsParsed /\ ts_call.es.ok) =>
    /\ ts_call.es.loop_end - ts_call.es.loop_begin
         = 8 * Held.descriptor_loop_length
    /\ ts_call.es.command_end - ts_call.es.header_end
         = 8 * Held.splice_command_length

\* C17 as stated: every descriptor whose tag is not 0x02 is skipped, whatever
\* its descriptor_length: the round reads descriptor_length + 2 bytes, stores
\* no segmentation descriptor and ends.
C17_UnsupportedDescriptorSkipped ==
  EsParsed =>
    \A i \in 1..Len(ts_call.es.descriptors) :
       LET round == ts_call.es.descriptors[i]
       IN round.tag # 2 =>
            /\ round.ended /\ round.stored = 0
            /\ round.end - round.begin = 8 * (round.descriptor_length + 2)

\* The bytes of the descriptor loop the rounds up to i account for.
RECURSIVE Accounted(_, _)
Accounted(rounds, i) ==
  IF i = 0 THEN 0 ELSE Accounted(rounds, i - 1) + rounds[i].descriptor_length + 2

\* C17 as amended: a descriptor whose tag is not 0x02 stores no segmentation
\* descriptor; with a descriptor_length of at least 4 and its bytes followed
\* by more bytes of the buffer, it is skipped: the round reads
\* descriptor_length + 2 bytes, and the parser goes on with the next
\* descriptor when the loop has bytes left; with a descriptor_length below 4
\* the round fails and Parse returns false.
C17_UnsupportedDescriptorSkippedFromFour ==
  EsParsed =>
    LET es == ts_call.es
    IN \A i \in 1..Len(es.descriptors) :
          LET round == es.descriptors[i]
              length == round.descriptor_length
          IN round.tag # 2 =>
               /\ round.stored = 0
               /\ (length >= 4 /\ round.begin + 8 * (length + 2) < 8 * Len(es.buf))
                    => /\ round.ended
                       /\ round.end - round.begin = 8 * (length + 2)
                       /\ (/\ Accounted(es.descriptors, i)
                                < Held.descriptor_loop_length
                           /\ round.end + 48 <= 8 * Len(es.buf))
                            => /\ Len(es.descriptors) > i
                               /\ es.descriptors[i + 1].begin = round.end
               /\ length < 4 => (~round.ended /\ ~es.ok)

\* An unsupported descriptor was skipped and the segmentation descriptor after
\* it was parsed, in a section that was accepted.
C17_Witness ==
  /\ EsParsed /\ ts_call.es.ok
  /\ Len(ts_call.es.descriptors) = 2
  /\ ts_call.es.descriptors[1].tag # 2
  /\ ts_call.es.descriptors[1].descriptor_length >= 4
  /\ ts_call.es.descriptors[2].tag = 2
  /\ ts_call.es.descriptors[2].stored = 1

\* C18: after a Parse that returns false the parser holds no section, as after
\* Reset or Flush.
C18_FailedParseLeavesParserReset ==
  (EsParsed /\ ~ts_call.es.ok) => sis_ = << >>

\* C19: given a buffer that is the section, no more and no less, once the
\* descriptor loop is read, for an encrypted packet the parser
\* takes (section_length + 3) - (bytes read) - 8 bytes of stuffing, then
\* e_crc_32, then crc_32, and ends at the end of the section; for a packet
\* that is not encrypted it reads crc_32 at once.
C19_StuffingThenCrcs ==
  (/\ EsParsed /\ ts_call.es.loop_end # -1
   /\ Len(ts_call.es.buf) = Held.section_length + 3) =>
    LET es == ts_call.es
        stuffing == (Held.section_length + 3) - (es.loop_end \div 8) - 8
    IN IF Held.encrypted_packet # 0
       THEN /\ Held.alignment_stuffing_bytes_length = stuffing
            /\ es.ok => /\ es.crc_begin = es.loop_end + 8 * (stuffing + 4)
                        /\ es.pos = 8 * (Held.section_length + 3)
       ELSE es.ok => es.crc_begin = es.loop_end

\* C20: a payload without the unit start indicator that comes after one with
\* it continues the section: its bytes reach the parser.
C20_ContinuationReachesParser ==
  (/\ ts_call.op = "Parse" /\ ~ts_call.payload_unit_start_indicator
   /\ ts_call.after_pusi)
    => ts_call.es.parsed

\* ---------------------------------------------- claims about the playlist
\* The playlist is live with a time shift buffer.
LiveWindow ==
  /\ playlist.hls_params_.playlist_type = "kLive"
  /\ playlist.hls_params_.time_shift_buffer_depth > 0

\* C21: after every call the media sequence number of a live playlist with a
\* time shift buffer is the number of ExtInf entries erased so far and its
\* discontinuity sequence number the number of ExtDiscontinuity entries
\* erased so far; both are 0 for every other playlist; no call decreases
\* either.
C21_SequenceNumbersCountEvictions ==
  [][/\ playlist'.constructed =>
          /\ playlist'.media_sequence_number_ = pl_hist'.evicted_ext_inf
          /\ playlist'.discontinuity_sequence_number_
               = pl_hist'.evicted_discontinuity
          /\ ~LiveWindow' =>
               /\ playlist'.media_sequence_number_ = 0
               /\ playlist'.discontinuity_sequence_number_ = 0
     /\ playlist.constructed =>
          /\ playlist'.media_sequence_number_
               >= playlist.media_sequence_number_
          /\ playlist'.discontinuity_sequence_number_
               >= playlist.discontinuity_sequence_number_]_vars

\* The ExtInf entries of the playlist, in their order.
SegmentsHeld == SelectSeq(playlist.entries_, LAMBDA e : e.type = "kExtInf")

\* The last call was an AddSegment that returned and appended a segment to a
\* live playlist with a time shift buffer: the window was slid.
SlidAfterSegment ==
  /\ playlist.constructed
  /\ LiveWindow
  /\ pl_call.op = "AddSegment"
  /\ ~pl_call.aborted
  /\ CountOf(pl_call.appended, "kExtInf") > 0

\* C22: after every AddSegment on a live playlist with a time shift buffer
\* the last ExtInf begins at most the buffer depth plus the longest segment
\* duration after the first ExtInf that is left, and the segment just added
\* is still in the playlist.
C22_WindowSpanBounded ==
  SlidAfterSegment =>
    /\ SegmentsHeld # << >>
    /\ SegmentsHeld[Len(SegmentsHeld)] = pl_hist.last_segment[1]
    /\ SegmentsHeld[Len(SegmentsHeld)].start_time - SegmentsHeld[1].start_time
         <= Seconds(playlist.hls_params_.time_shift_buffer_depth)
              + playlist.longest_segment_duration_

\* The index of the first ExtInf of entries, 0 when there is none.
FirstSegmentInfo(entries) ==
  IF \E i \in 1..Len(entries) : entries[i].type = "kExtInf"
  THEN CHOOSE i \in 1..Len(entries) :
         /\ entries[i].type = "kExtInf"
         /\ \A j \in 1..(i - 1) : entries[j].type # "kExtInf"
  ELSE 0

\* The ExtKey entries that come one after another right before the i-th
\* entry.
RECURSIVE KeysRightBefore(_, _)
KeysRightBefore(entries, i) ==
  IF i <= 1 THEN << >>
  ELSE IF entries[i - 1].type # "kExtKey" THEN << >>
  ELSE Append(KeysRightBefore(entries, i - 1), entries[i - 1])

\* The n-th segment of the slide scenario has just been added.
SlideSegmentAdded(n) ==
  /\ playlist.constructed
  /\ playlist.hls_params_.time_shift_buffer_depth = 30
  /\ pl_call.op = "AddSegment"
  /\ pl_hist.segments = n

\* The first ExtInf of the scenario is gone, and the keys that came right
\* before it are the head of the playlist when no key came after it.
FirstSegmentEvicted ==
  /\ pl_hist.evicted_ext_inf = 1
  /\ pl_call.slides # << >>
  /\ SegmentsHeld # << >>
  /\ SegmentsHeld[1].start_time = Seconds(10)
  /\ LET before == pl_call.slides[1].before
         keys == KeysRightBefore(before, FirstSegmentInfo(before))
     IN CountOf(before, "kExtKey") = Len(keys)
          => /\ SubSeq(playlist.entries_, 1, Len(keys)) = keys
             /\ playlist.entries_[Len(keys) + 1] = SegmentsHeld[1]

\* C23 as stated: with a time shift buffer of 30 s, after the fourth of four
\* contiguous segments of 10 s the media sequence number is 1, the first
\* ExtInf is gone and a key right before it is still the head.
C23_FourthSegmentEvictsFirst ==
  SlideSegmentAdded(4) =>
    /\ playlist.media_sequence_number_ = 1
    /\ FirstSegmentEvicted

\* C23, amended: after the fourth segment nothing is gone and the media
\* sequence number is 0; after the fifth the media sequence number is 1, the
\* first ExtInf is gone and the keys right before it are still the head.
C23_FifthSegmentEvictsFirst ==
  /\ SlideSegmentAdded(4) =>
       /\ playlist.media_sequence_number_ = 0
       /\ pl_hist.evicted_ext_inf = 0
       /\ pl_call.slides = << >>
       /\ SegmentsHeld[1].start_time = 0
  /\ SlideSegmentAdded(5) =>
       /\ playlist.media_sequence_number_ = 1
       /\ FirstSegmentEvicted

\* The fifth segment was added to a playlist that began with a key.
C23_Witness ==
  /\ SlideSegmentAdded(5)
  /\ playlist.entries_[1].type = "kExtKey"
  /\ CountOf(playlist.entries_, "kExtKey") = 1
  /\ playlist.media_sequence_number_ = 1

\* The index of the first ExtInf of entries from the i-th on, 0 when there is
\* none.
FirstSegmentInfoFrom(entries, i) ==
  IF \E k \in i..Len(entries) : entries[k].type = "kExtInf"
  THEN CHOOSE k \in i..Len(entries) :
         /\ entries[k].type = "kExtInf"
         /\ \A j \in i..(k - 1) : entries[j].type # "kExtInf"
  ELSE 0

\* The most recent run of ExtKey entries, one after another, among the
\* entries before the i-th.
RECURSIVE LastKeyRun(_, _)
LastKeyRun(entries, i) ==
  IF i <= 1 THEN << >>
  ELSE IF entries[i - 1].type = "kExtKey" THEN KeysRightBefore(entries, i)
  ELSE LastKeyRun(entries, i - 1)

\* The entry is one of entries.
Holds(entries, entry) == \E j \in 1..Len(entries) : entries[j] = entry

\* The keys of the first ExtInf that the slide left are the head of the
\* playlist the slide left.
KeysAtHead(slide) ==
  LET first == FirstSegmentInfoFrom(slide.before, slide.last)
      keys == LastKeyRun(slide.before, first)
  IN first > 0 =>
       /\ Len(slide.after) > Len(keys)
       /\ SubSeq(slide.after, 1, Len(keys)) = keys
       /\ FirstSegmentInfo(slide.after) > Len(keys)
       /\ slide.after[FirstSegmentInfo(slide.after)] = slide.before[first]

\* Two keys that come one after the other are both kept or both removed.
KeyRunsWhole(slide) ==
  \A i \in 1..(Len(slide.before) - 1) :
    (slide.before[i].type = "kExtKey" /\ slide.before[i + 1].type = "kExtKey")
      => (Holds(slide.after, slide.before[i])
            <=> Holds(slide.after, slide.before[i + 1]))

\* C24: after every slide of the window the most recent run of ExtKey
\* entries that came before the first ExtInf left is, in its order, the head
\* of the playlist, before that ExtInf; and ExtKey entries that come one
\* after another are all kept or all removed.
C24_KeysOfFirstSegmentAtHead ==
  (playlist.constructed /\ ~pl_call.aborted) =>
    \A i \in 1..Len(pl_call.slides) :
      /\ KeysAtHead(pl_call.slides[i])
      /\ KeyRunsWhole(pl_call.slides[i])

\* The entry types that a slide is to pass over.
SilentTypes ==
  {"kExtPlacementOpportunity", "kExtSignalExit", "kExtSignalSpan",
   "kExtSignalReturn"}

\* The slide erased every entry of a silent type that came before the first
\* ExtInf it left.
SilentErased(slide) ==
  \A i \in 1..Len(slide.before) :
    (/\ slide.before[i].type \in SilentTypes
     /\ i < FirstSegmentInfoFrom(slide.before, slide.last))
      => i < slide.last

\* C25: a call that slides the window of a live playlist goes on over every
\* ExtPlacementOpportunity, ExtSignalExit, ExtSignalSpan and ExtSignalReturn
\* before the first ExtInf it leaves and erases them; the sequence numbers
\* rise by the ExtInf and ExtDiscontinuity entries erased and by nothing
\* else, and RemoveOldSegment is called for the erased ExtInf entries only.
C25_SignalsEvictedSilently ==
  [][(playlist.constructed /\ pl_call'.n = pl_call.n + 1
        /\ pl_call'.op = "AddSegment")
       => /\ ~pl_call'.aborted
          /\ \A i \in 1..Len(pl_call'.slides) :
               SilentErased(pl_call'.slides[i])
          /\ playlist'.media_sequence_number_
               = playlist.media_sequence_number_
                   + ErasedOf(pl_call'.slides, "kExtInf")
          /\ playlist'.discontinuity_sequence_number_
               = playlist.discontinuity_sequence_number_
                   + ErasedOf(pl_call'.slides, "kExtDiscontinuity")
          /\ Len(pl_call'.removed) = ErasedOf(pl_call'.slides, "kExtInf")]_vars

\* The EXT-X-BYTERANGE line of the segment has an offset after an "@".
HasAt(entry) == Len(SegmentInfoEntryToString(entry)[2]) = 4

\* The ExtInf entries that the call appended, in their order.
SegmentsAppended(appended) ==
  SelectSeq(appended, LAMBDA e : e.type = "kExtInf")

\* C26: with byte range on, every segment that AddSegment appends has
\* "@start" in its EXT-X-BYTERANGE line exactly when its
\* previous_segment_end_offset plus one is not its start byte, which for a
\* segment added after another one is when its start byte is not the start
\* byte plus the size of that one; without the "@" the line has the size
\* alone.
C26_OffsetIffNotContiguous ==
  [][(playlist.constructed /\ pl_call'.n = pl_call.n + 1
        /\ pl_call'.op = "AddSegment")
       => LET segments == SegmentsAppended(pl_call'.appended)
              Previous(i) == IF i > 1 THEN << segments[i - 1] >>
                             ELSE pl_hist.last_segment
          IN \A i \in 1..Len(segments) :
               segments[i].use_byte_range =>
                 /\ Previous(i) # << >> =>
                      (HasAt(segments[i])
                         <=> segments[i].start_byte_offset
                               # Previous(i)[1].start_byte_offset
                                   + Previous(i)[1].segment_file_size)
                 /\ HasAt(segments[i])
                      <=> segments[i].previous_segment_end_offset + 1
                            # segments[i].start_byte_offset
                 /\ SegmentInfoEntryToString(segments[i])[2]
                      = << "#EXT-X-BYTERANGE", segments[i].segment_file_size >>
                          \o (IF HasAt(segments[i])
                              THEN << "@", segments[i].start_byte_offset >>
                              ELSE << >>)]_vars

\* A segment was added right behind the one before it and has the size
\* alone; the playlist was written with it.
C26_Witness ==
  /\ playlist.constructed
  /\ Len(SegmentsHeld) >= 2
  /\ LET last == SegmentsHeld[Len(SegmentsHeld)]
         previous == SegmentsHeld[Len(SegmentsHeld) - 1]
     IN /\ last.use_byte_range
        /\ last.start_byte_offset
             = previous.start_byte_offset + previous.segment_file_size
        /\ last.start_byte_offset > 0
        /\ ~HasAt(last)
        /\ HasAt(previous)
  /\ pl_call.op = "WriteToFile"

\* C27: with byte range on, the first segment added to a playlist has
\* "@offset" in its EXT-X-BYTERANGE line when its start byte is 1 or more.
C27_FirstSegmentOffset ==
  (/\ playlist.constructed
   /\ pl_call.op = "AddSegment"
   /\ pl_hist.segments > 0
   /\ pl_hist.segments = Len(SegmentsAppended(pl_call.appended)))
    => LET first == SegmentsAppended(pl_call.appended)[1]
       IN (first.use_byte_range /\ first.start_byte_offset >= 1)
            => HasAt(first)

\* The step is a call of the playlist's member function op.
IsPlaylistCall(op) ==
  /\ playlist.constructed
  /\ pl_call'.n = pl_call.n + 1
  /\ pl_call'.op = op

RECURSIVE IndexOfSegment(_, _, _)
IndexOfSegment(entries, i, from) ==
  IF entries[from].type = "kExtInf"
  THEN IF i = 1 THEN from ELSE IndexOfSegment(entries, i - 1, from + 1)
  ELSE IndexOfSegment(entries, i, from + 1)

\* The i-th ExtInf of entries has an ExtSignalSpan right before it.
SpanBefore(entries, i) ==
  /\ IndexOfSegment(entries, i, 1) > 1
  /\ entries[IndexOfSegment(entries, i, 1) - 1].type = "kExtSignalSpan"

\* C29: AddSegment puts an ExtSignalSpan right before an ExtInf it appends
\* exactly when an ExtSignalExit was added with no ExtSignalReturn since and
\* an ExtInf was already appended since that ExtSignalExit; it appends no
\* other ExtSignalSpan.
C29_SpanIffInAdAfterFirstSegment ==
  [][IsPlaylistCall("AddSegment")
       => LET appended == pl_call'.appended
              segments == CountOf(appended, "kExtInf")
          IN /\ \A i \in 1..segments :
                  SpanBefore(appended, i)
                    <=> (pl_hist.since_exit >= 0
                           /\ pl_hist.since_exit + (i - 1) >= 1)
             /\ CountOf(appended, "kExtSignalSpan")
                  = Cardinality({ i \in 1..segments : SpanBefore(appended, i) })
             /\ Len(appended) = segments + CountOf(appended, "kExtSignalSpan")]_vars

\* The second segment since an ExtSignalExit was appended behind a span, and
\* the first one without.
C29_Witness ==
  /\ playlist.constructed
  /\ pl_call.op = "AddSegment"
  /\ pl_hist.since_exit = 2
  /\ Len(pl_call.appended) = 2
  /\ SpanBefore(pl_call.appended, 1)
  /\ playlist.in_ad_state_
  /\ \E k \in 1..(Len(playlist.entries_) - 1) :
       /\ playlist.entries_[k].type = "kExtSignalExit"
       /\ playlist.entries_[k + 1].type = "kExtInf"

\* C30: a WriteToFile that follows a WriteToFile with no call between them
\* writes the same content and leaves every member of the playlist as it
\* was.
C30_WriteTwiceSame ==
  [][(IsPlaylistCall("WriteToFile") /\ pl_call.op = "WriteToFile")
       => /\ pl_call'.content = pl_call.content
          /\ playlist' = playlist]_vars

\* The playlist with a segment was written twice in a row, the first of the
\* two writes having set the target duration.
C30_Witness ==
  /\ playlist.constructed
  /\ pl_call.op = "WriteToFile"
  /\ pl_hist.writes = 2
  /\ pl_hist.segments >= 1
  /\ playlist.target_duration_set_
  /\ playlist.target_duration_ > 0
  /\ pl_call.content # << >>

\* C31: every playlist that WriteToFile writes advertises as
\* EXT-X-TARGETDURATION the ceiling of the longest segment duration so far,
\* which no listed segment exceeds.
C31_TargetDurationIsCeilOfLongest ==
  (playlist.constructed /\ pl_call.op = "WriteToFile") =>
    /\ pl_call.content[3]
         = << "#EXT-X-TARGETDURATION",
              Ceil(playlist.longest_segment_duration_) >>
    /\ \A i \in 1..Len(SegmentsHeld) :
         SegmentsHeld[i].duration <= Seconds(pl_call.content[3][2])

\* The start times, in whole seconds, of the ExtInf entries that the slides
\* erased, in the order of their erasing.
RECURSIVE EvictedTimes(_)
EvictedTimes(slides) ==
  IF slides = << >> THEN << >>
  ELSE LET erased == SegmentsAppended(
                       SubSeq(Head(slides).before, 1, Head(slides).last - 1))
       IN [i \in 1..Len(erased) |-> Truncated(erased[i].start_time)]
            \o EvictedTimes(Tail(slides))

\* The times that the segment names of the queue were made from.
TimesOf(names) == [i \in 1..Len(names) |-> names[i].time]

\* C32: after every AddSegment the segments evicted and not yet deleted are
\* at most preserved_segments_outside_live_window, whatever its value, and
\* the files deleted are the evicted ones in the order of their eviction:
\* what the call deleted and what is left in the queue is what was in the
\* queue and what the call evicted.
C32_PreservedFifo ==
  [][(IsPlaylistCall("AddSegment") /\ ~pl_call'.aborted)
       => /\ pl_hist'.evicted_ext_inf - pl_hist'.deleted
               <= playlist.hls_params_.preserved_segments_outside_live_window
          /\ TimesOf(pl_call'.deleted)
               \o TimesOf(playlist'.segments_to_be_removed_)
               = TimesOf(playlist.segments_to_be_removed_)
                   \o EvictedTimes(pl_call'.slides)]_vars

\* No input stream is a video stream.
NoVideo == \A s \in Streams : info[s].stream_type # "video"

\* The step is a sample call without video that called GetNext: it got a cue
\* from the queue, or it came back from the queue with nothing.
GetNextFromSample ==
  /\ IsCall /\ call'.op = "OnSample" /\ NoVideo
  /\ Len(obtained') > Len(obtained) \/ call'.status \in {"BLOCKED", "CANCELLED"}

\* The handler at the GetNext call of the step: AcceptSample has returned.
AtGetNext == AcceptSample(Handler, call'.stream_index, call'.arg).h

\* C35: without video, a sample call calls GetNext only when every stream
\* holds a buffered sample and the front sample of every stream has an
\* ordering time at or after the hint.
C35_GetNextOnlyWhenAllWaitAtHint ==
  [][GetNextFromSample =>
       \A t \in Streams :
          /\ AtGetNext.stream_states[t].samples # << >>
          /\ OrderingTime(t, Head(AtGetNext.stream_states[t].samples))
               >= AtGetNext.hint_]_vars

\* A sample call without video got the first cue from the queue: the cue is
\* sent on the stream of the call, right before the sample of the call.
C35_Witness ==
  /\ NoVideo /\ call.op = "OnSample" /\ call.status = "OK" /\ Len(obtained) = 1
  /\ LET sent == dispatched[call.stream_index]
     IN /\ Len(sent) >= 2
        /\ sent[Len(sent)] = SampleItem(call.arg)
        /\ sent[Len(sent) - 1] = CueItem(obtained[1])
  /\ \A t \in Streams : \E i \in 1..Len(dispatched[t]) :
        dispatched[t][i] = CueItem(obtained[1])

\* C36: once the final OnFlushRequest has returned OK, every sample given to
\* the handler is dispatched exactly once, in the order given, and no FIFO
\* holds a sample.
C36_FlushLeavesNoSample ==
  (flushed /\ call.op = "OnFlushRequest" /\ call.status = "OK") =>
     \A s \in Streams :
        /\ SamplesOf(dispatched[s]) = accepted[s]
        /\ stream_states[s].samples = << >>

\* The final flush found samples waiting: without video one stream gave no
\* sample, so no sample call took a cue, and another one has a sample sent
\* after a cue.
C36_Witness ==
  /\ flushed /\ call.op = "OnFlushRequest" /\ call.status = "OK" /\ NoVideo
  /\ \E s, t \in Streams :
        /\ accepted[t] = << >>
        /\ \E i \in 2..Len(dispatched[s]) :
              dispatched[s][i - 1].kind = "cue" /\ dispatched[s][i].kind = "sample"

\* C37: the time the handler orders a sample by, against the cue times and
\* the hint, is the exact scaled time over the time scale, in seconds with its
\* fraction.
C37_OrderingTimeIsExact ==
  \A s \in Streams : \A i \in 1..Len(accepted[s]) :
     TimeInSeconds(info[s], accepted[s][i]) = ExactTime(s, accepted[s][i])

\* The index of the last ExtSignalExit of entries before index j, 0 if none.
RECURSIVE LastExitBefore(_, _)
LastExitBefore(entries, j) ==
  IF j <= 1 THEN 0
  ELSE IF entries[j - 1].type = "kExtSignalExit" THEN j - 1
  ELSE LastExitBefore(entries, j - 1)

\* The durations of the ExtInf entries at the indexes from..to, in all.
RECURSIVE DurationBetween(_, _, _)
DurationBetween(entries, from, to) ==
  IF from > to THEN 0
  ELSE (IF entries[from].type = "kExtInf" THEN entries[from].duration ELSE 0)
         + DurationBetween(entries, from + 1, to)

\* The ExtSignalSpan entries of entries that still have their ExtSignalExit.
SpansInAd(entries) ==
  { j \in 1..Len(entries) :
      entries[j].type = "kExtSignalSpan" /\ LastExitBefore(entries, j) > 0 }

\* C38: the position of an ExtSignalSpan is the duration in seconds, with its
\* fraction, of the segments added since the ExtSignalExit and before the
\* segment behind the span; the position is 0 at the ExtSignalExit and does
\* not decrease from one span of an ExtSignalExit to the next.
C38_SpanPositionIsDurationSinceExit ==
  playlist.constructed =>
    /\ \A j \in SpansInAd(playlist.entries_) :
          playlist.entries_[j].position
            = DurationBetween(playlist.entries_,
                              LastExitBefore(playlist.entries_, j), j)
    /\ \A j, k \in SpansInAd(playlist.entries_) :
          (j < k /\ LastExitBefore(playlist.entries_, j)
                      = LastExitBefore(playlist.entries_, k))
            => playlist.entries_[j].position <= playlist.entries_[k].position
    /\ (pl_call.op = "AddSignalExit" /\ ~pl_call.aborted)
          => playlist.ad_position_ = 0

\* C39: on every stream the cues dispatched are a START, an END, a START and
\* so on: the first one is a START, and of two cues that follow each other
\* one is a START and the other an END.
C39_DispatchedCuesAlternate ==
  \A s \in Streams :
     LET events == EventsOf(dispatched[s])
     IN \A i \in 1..Len(events) :
           IF i % 2 = 1 THEN SCTE35_START_EVENT(events[i].seg_type)
           ELSE SCTE35_END_EVENT(events[i].seg_type)

\* C40: whatever the buffer, no round of the descriptor loop parses a
\* segmentation descriptor into a slot of index 8 or more, and the section
\* the parser holds has a segmentation_descriptor_count of 8 at most.
C40_DescriptorsWithinSlots ==
  (ts_call.op \in {"Parse", "Ended"} /\ ts_call.es.parsed) =>
     /\ \A i \in 1..Len(ts_call.es.descriptors) :
           ts_call.es.descriptors[i].slot < kSegmentationDescriptorSlots
     /\ ts_call.op = "Parse"
           => Held.segmentation_descriptor_count <= kSegmentationDescriptorSlots

\* ---------------------------------------------------------------- C34
\* The sequence s after its first n elements.
After(s, n) == SubSeq(s, n + 1, Len(s))

\* The playlist of the stream the last notifier call was about.
NotifiedPlaylist == notifier.media_playlists_[notifier.stream_id]

\* The name of the last segment in the entries, << >> when there is none.
LastSegmentName(entries) ==
  LET last == LastSegmentInfo(entries, Len(entries))
  IN IF last = 0 THEN << >> ELSE entries[last].file_name

\* C34: the segment name NotifyNewSegment passes to AddSegment of the stream's
\* playlist is rebased: with a base_url, a path under the master playlist's
\* output directory loses that directory and gets base_url in front, and any
\* other path is kept whole behind base_url, double slash or not; with an
\* empty base_url, the path is made relative to the directory of the media
\* playlist.
C34_SegmentNameIsRebased ==
  (notifier.constructed /\ notifier.op = "NotifyNewSegment" /\ notifier.result)
    => LET path == notifier.arg
           base_url == notifier.hls_params.base_url
           output_dir == notifier.hls_params.output_dir
           playlist_dir == output_dir \o DirName(NotifiedPlaylist.file_name)
           name == LastSegmentName(NotifiedPlaylist.playlist.entries_)
       IN /\ notifier.calls[1]
               = PlaylistCalled("AddSegment", notifier.stream_id, name)
          /\ (base_url # << >> /\ IsParent(output_dir, path))
               => /\ SubSeq(name, 1, Len(base_url)) = base_url
                  /\ output_dir \o After(name, Len(base_url)) = path
          /\ (base_url # << >> /\ ~IsParent(output_dir, path))
               => name = base_url \o path
          /\ (base_url = << >> /\ IsParent(playlist_dir, path))
               => playlist_dir \o name = path

\* A segment of another directory was given to a notifier with a base_url,
\* and its URL has the double slash.
C34_Witness ==
  /\ notifier.constructed /\ notifier.op = "NotifyNewSegment"
  /\ notifier.result
  /\ notifier.arg = << "/", "var", "/", "somewhereelse", "/", "media1.ts" >>
  /\ LastSegmentName(NotifiedPlaylist.playlist.entries_)
       = << "http://testprefix.com", "/", "/", "var", "/", "somewhereelse",
            "/", "media1.ts" >>

\* A segment was given to a notifier without base_url, under the directory
\* of the stream's playlist.
C34_WitnessRelative ==
  /\ notifier.constructed /\ notifier.op = "NotifyNewSegment"
  /\ notifier.result
  /\ NotifiedPlaylist.file_name = << "video", "/", "playlist.m3u8" >>
  /\ LastSegmentName(NotifiedPlaylist.playlist.entries_)
       = << "path", "/", "to", "/", "media1.m4s" >>

\* ---------------------------------------------------------------- C33
RECURSIVE LongestIn(_)
\* The longest duration of the segments in the entries, in ticks.
LongestIn(entries) ==
  IF entries = << >> THEN 0
  ELSE LET rest == LongestIn(Tail(entries))
           own == IF Head(entries).type = "kExtInf"
                  THEN Head(entries).duration ELSE 0
       IN IF own > rest THEN own ELSE rest

RECURSIVE TargetOver(_)
\* The ceiling of the longest segment duration over all the playlists.
TargetOver(media_playlists) ==
  IF media_playlists = << >> THEN 0
  ELSE LET rest == TargetOver(Tail(media_playlists))
           own == Ceil(LongestIn(Head(media_playlists).playlist.entries_))
       IN IF own > rest THEN own ELSE rest

\* A step in which a live or event notifier took a new segment.
NewSegmentNotified ==
  /\ notifier.constructed
  /\ notifier.hls_params.playlist_type \in {"kLive", "kEvent"}
  /\ notifier'.op = "NotifyNewSegment"
  /\ SegmentsNotified(notifier'.media_playlists_)
       = SegmentsNotified(notifier.media_playlists_) + 1

RECURSIVE RewritesFrom(_, _, _)
\* SetTargetDuration and WriteToFile on the playlists i..n, in that order.
RewritesFrom(i, n, target) ==
  IF i > n THEN << >>
  ELSE << PlaylistCalled("SetTargetDuration", i, << target >>),
          PlaylistCalled("WriteToFile", i, << target >>) >>
         \o RewritesFrom(i + 1, n, target)

\* The calls by operation and stream.
OpsOf(calls) ==
  [i \in 1..Len(calls) |-> << calls[i].op, calls[i].stream_id >>]

\* C33: in a live or event notifier, NotifyNewSegment adds the segment to the
\* playlist of its stream and to no other; when the target duration (the
\* ceiling of the longest segment duration) changes with it, every registered
\* playlist gets the new target duration once and is rewritten, in the order
\* of registration, and then the master playlist is written; when it does not
\* change, only the playlist of the stream is rewritten, and then the master
\* playlist.
C33_NewSegmentRewritesPlaylists ==
  [][NewSegmentNotified =>
       LET before == notifier.media_playlists_
           after == notifier'.media_playlists_
           s == notifier'.stream_id
           n == Len(after)
           add_segment == notifier'.calls[1]
       IN /\ n = Len(before)
          /\ \A i \in 1..n :
                IF i = s
                THEN /\ Len(after[i].playlist.entries_)
                          = Len(before[i].playlist.entries_) + 1
                     /\ SubSeq(after[i].playlist.entries_, 1,
                               Len(before[i].playlist.entries_))
                          = before[i].playlist.entries_
                     /\ LastSegmentInfo(after[i].playlist.entries_,
                                        Len(after[i].playlist.entries_))
                          = Len(after[i].playlist.entries_)
                ELSE after[i].playlist.entries_ = before[i].playlist.entries_
          /\ add_segment.op = "AddSegment" /\ add_segment.stream_id = s
          /\ IF TargetOver(after) # TargetOver(before)
             THEN /\ notifier'.calls
                       = << add_segment >>
                           \o RewritesFrom(1, n, TargetOver(after))
                           \o << PlaylistCalled("WriteMasterPlaylist", 0,
                                                << >>) >>
                  /\ \A i \in 1..n :
                        after[i].playlist.target_duration_ = TargetOver(after)
             ELSE OpsOf(notifier'.calls)
                    = << << "AddSegment", s >>, << "WriteToFile", s >>,
                         << "WriteMasterPlaylist", 0 >> >>]_vars

\* The third segment changed the target duration of a notifier with two
\* playlists once more, and both playlists were rewritten with it.
C33_Witness ==
  /\ notifier.constructed /\ notifier.op = "NotifyNewSegment"
  /\ notifier.hls_params.playlist_type \in {"kLive", "kEvent"}
  /\ Len(notifier.media_playlists_) = 2
  /\ SegmentsNotified(notifier.media_playlists_) = 3
  /\ Len(notifier.calls) = 6
  /\ \A i \in 1..2 :
        notifier.media_playlists_[i].playlist.target_duration_ = 10

\* The second segment went to the other playlist and left the target
\* duration alone: only that playlist was rewritten.
C33_WitnessUnchanged ==
  /\ notifier.constructed /\ notifier.op = "NotifyNewSegment"
  /\ notifier.hls_params.playlist_type \in {"kLive", "kEvent"}
  /\ Len(notifier.media_playlists_) = 2
  /\ notifier.stream_id = 2
  /\ CountOf(notifier.media_playlists_[1].playlist.entries_, "kExtInf") = 1
  /\ OpsOf(notifier.calls)
       = << << "AddSegment", 2 >>, << "WriteToFile", 2 >>,
            << "WriteMasterPlaylist", 0 >> >>

====
